---- MODULE Spec2Model ----
(***************************************************************************)
(* Supplier-impact matching, cascading-risk propagation and risk scoring   *)
(* of the supply-chain risk backend (backend/app).                         *)
(*                                                                         *)
(* The components are modelled side by side, each with its own             *)
(* specification:                                                          *)
(*   SpecCascade   services/dependency_analyzer.py  (graph + BFS)          *)
(*   SpecMatch     agents/supplier_matcher.py       (affected suppliers)   *)
(*   SpecRisk      agents/risk_analyzer.py, services/risk_calculator.py    *)
(*   SpecAlert     services/live_feeds.py           (live-feed alerts)     *)
(*   SpecRank      services/supplier_scoring.py     (alternatives)         *)
(*   SpecPipeline  agents/orchestrator.py           (process_event)        *)
(*   SpecEvents    routers/events.py                (scheduling of runs)   *)
(*   SpecWorker    services/weather_worker.py       (polling loop)         *)
(*                                                                         *)
(* Numbers: scores are fixed-point integers in hundredths of a point       *)
(* (10000 = 100.00); proximity scores are hundredths (100 = 1.0);          *)
(* distances are metres.                                                   *)
(***************************************************************************)
EXTENDS Integers, Sequences, FiniteSets, TLC

VARIABLES
    \* ---- dependency_analyzer.py ----
    pc,                     \* position of the cascade computation
    stored_dependencies,    \* build_dependency_graph's local `dependencies`, while it runs
    dependency_graph,       \* dict supplier_id -> list of ids it depends on
    affected_supplier_ids,  \* the set passed to find_downstream_impact
    reverse_graph,          \* dict dep_id -> list of dependents
    unordered,              \* front of queue: list(affected_supplier_ids), not yet popped
    queue,                  \* rest of queue: the dependents appended so far
    visited,
    downstream_affected,
    \* ---- supplier_matcher.py: find_affected_suppliers ----
    mpc,                    \* "idle", "for" (in the loop), "returned", "raised"
    parsed_event,
    scanned,                \* suppliers the loop has taken so far
    supplier,               \* the loop variable
    is_affected,            \* locals at the end of the last iteration
    proximity_score,
    reason,
    affected_suppliers,     \* the output list
    matcher_result,         \* the returned dict, or the exception raised
    \* ---- risk_analyzer.py, risk_calculator.py ----
    rpc,                    \* "idle", "ready", "analyzed", "calculated"
    affected_list,          \* the caller's affected-supplier list (a list of dicts)
    total_suppliers,
    severity_level,
    risk_result,            \* what analyze_risk returned
    calc_result,            \* what the risk_calculator functions returned
    \* ---- live_feeds.py: LiveFeedService, AlertDetector ----
    apc,                    \* "idle", "skipped", "matched", "filtered", "alerted", "called"
    feed_suppliers,         \* the suppliers with locations the match query returned
    feed_event,             \* the event dict
    triggered,              \* what _should_trigger_alert returned
    alert,                  \* the alert _create_alert built
    \* ---- supplier_scoring.py, recommendation_generator.py ----
    kpc,                    \* "idle", "found", "ranked"
    all_suppliers,          \* the Supplier table, indexed by id
    rec_affected_suppliers, \* affected_suppliers handed to _find_alternative_suppliers
    rec_event_location,     \* the incident's estimated coordinates
    alternative_suppliers,  \* what _find_alternative_suppliers returned
    alternatives,           \* arguments of rank_alternative_suppliers
    affected_supplier,
    top_n,
    ranked_alternatives,    \* what rank_alternative_suppliers returned
    \* ---- orchestrator.py: process_event ----
    opc,                    \* "idle", "step1" .. "step6", "update", "organization", "returned"
    processing_status,      \* Event.processing_status
    agent_logs,
    pipeline_affected,      \* how many suppliers step 2 found affected
    pipeline_risk_level,    \* risk_result["risk_level"]
    llm_response,           \* what the model answered in step 5
    recommendation_result,
    playbook_result,
    process_result,         \* what process_event returned
    steps_started,          \* the steps process_event has entered, in order
    cascade_outcome,        \* "none", "ok", "raised": how step 3 ended
    cascading_suppliers,    \* the local list step 3 leaves
    risk_arguments,         \* what analyze_risk was called with
    pipeline_risk_score,    \* risk_result["overall_risk_score"]
    current_risk_score,     \* Organization.current_risk_score
    risk_history,           \* the organization's RiskHistory rows
    \* ---- routers/events.py: create_and_analyze_event, compare_multiple_events ----
    event_rows,             \* number of rows of the events table (ids 1 .. event_rows)
    requests,               \* per request slot: position, events to create, task list
    run_count,              \* per event id: process_event runs started so far
    active_runs,            \* per event id: process_event runs started and not returned
    \* ---- services/weather_worker.py, routers/weather.py, main.py ----
    app_state,              \* "down", "up", "shut": the lifespan of the application
    worker_running,         \* WeatherWorker.running of the global worker
    ready,                  \* the event loop's queue of handlers and tasks ready to run
    loops,                  \* the worker.start() coroutines that have begun, by position
    start_requests,         \* POST /worker/start requests received so far
    stop_requests           \* POST /worker/stop requests received so far

cascadeVars == <<pc, stored_dependencies, dependency_graph, affected_supplier_ids, reverse_graph,
                 unordered, queue, visited, downstream_affected>>

matchVars == <<mpc, parsed_event, scanned, supplier, is_affected, proximity_score,
               reason, affected_suppliers, matcher_result>>

riskVars == <<rpc, affected_list, total_suppliers, severity_level, risk_result,
              calc_result>>

alertVars == <<apc, feed_suppliers, feed_event, triggered, alert>>

rankVars == <<kpc, all_suppliers, rec_affected_suppliers, rec_event_location,
              alternative_suppliers, alternatives, affected_supplier, top_n,
              ranked_alternatives>>

pipelineVars == <<opc, processing_status, agent_logs, pipeline_affected,
                  pipeline_risk_level, llm_response, recommendation_result,
                  playbook_result, process_result, steps_started, cascade_outcome,
                  cascading_suppliers, risk_arguments, pipeline_risk_score,
                  current_risk_score, risk_history>>

eventsVars == <<event_rows, requests, run_count, active_runs>>

workerVars == <<app_state, worker_running, ready, loops, start_requests, stop_requests>>

vars == <<cascadeVars, matchVars, riskVars, alertVars, rankVars, pipelineVars,
         eventsVars, workerVars>>

(***************************************************************************)
(* Bounds                                                                  *)
(***************************************************************************)
\* Suppliers of the organization are 1..NumIds.
NumIds == 3
\* Stored SupplierDependency rows.
MaxEdges == 3

\* Supplier ids of the organization; id 0 is a supplier outside of it (never
\* a key of the graph).
OrgSuppliers == 1..NumIds
AllIds == 0..NumIds

\* Optional values (JSON null / Python None, an absent dict key, or a value).
Absent == [kind |-> "absent", value |-> 0]
Null == [kind |-> "null", value |-> 0]
Num(x) == [kind |-> "number", value |-> x]
NullStr == [kind |-> "null", value |-> <<>>]
Str(x) == [kind |-> "str", value |-> x]

\* A variable that holds nothing yet.
None == "None"

(***************************************************************************)
(* Generic helpers                                                         *)
(***************************************************************************)
SeqsUpTo(S, n) == UNION {[1..k -> S] : k \in 0..n}

Range(s) == {s[i] : i \in DOMAIN s}

(***************************************************************************)
(* dependency_analyzer.build_dependency_graph                              *)
(***************************************************************************)
\* One stored row: supplier_id depends on depends_on_supplier_id.  The query
\* joins on SupplierDependency.supplier_id, so supplier_id is always in the
\* organization; depends_on_supplier_id need not be.
DependencyRows == [supplier_id : OrgSuppliers, depends_on_supplier_id : AllIds]

RECURSIVE AppendRows(_, _, _)
AppendRows(graph, dependencies, i) ==
    IF i > Len(dependencies) THEN graph
    ELSE LET dep == dependencies[i]
         IN  AppendRows([graph EXCEPT ![dep.supplier_id] =
                             Append(@, dep.depends_on_supplier_id)],
                        dependencies, i + 1)

\* build_dependency_graph with keys only for the suppliers that have rows.
build_dependency_graphKeysOfRows(suppliers, dependencies) ==
    AppendRows([s \in {dependencies[i].supplier_id : i \in DOMAIN dependencies} |-> <<>>],
               dependencies, 1)

build_dependency_graph(suppliers, dependencies) ==
    AppendRows([s \in suppliers |-> <<>>], dependencies, 1)

(***************************************************************************)
(* dependency_analyzer.find_downstream_impact                              *)
(***************************************************************************)
\* dict.get(key, [])
GetOrEmpty(d, k) == IF k \in DOMAIN d THEN d[k] ELSE <<>>

\* reverse_graph[dep_id]: the suppliers (in the dict's iteration order, ascending
\* id) whose list contains dep_id, once per occurrence.
RECURSIVE InvertFrom(_, _, _)
InvertFrom(graph, dep_id, s) ==
    IF s > NumIds THEN <<>>
    ELSE (IF s \in DOMAIN graph
             THEN [i \in 1..Len(SelectSeq(graph[s], LAMBDA d : d = dep_id)) |-> s]
             ELSE <<>>) \o InvertFrom(graph, dep_id, s + 1)

\* A search that follows the graph as stored, from a supplier to what it depends on.
InvertGraphNotInverted(graph) == graph

InvertGraph(graph) ==
    LET deps == UNION {Range(graph[s]) : s \in DOMAIN graph}
    IN  [d \in deps |-> InvertFrom(graph, d, 1)]

\* for dependent in dependents: if dependent not in visited: ...
\* st = [visited, downstream_affected, queue]
RECURSIVE VisitDependentsNoVisitedCheck(_, _, _)
VisitDependentsNoVisitedCheck(dependents, i, st) ==
    IF i > Len(dependents) THEN st
    ELSE LET dependent == dependents[i]
         IN  VisitDependentsNoVisitedCheck(dependents, i + 1,
                 [visited |-> st.visited \cup {dependent},
                  downstream_affected |-> st.downstream_affected \cup {dependent},
                  queue |-> Append(st.queue, dependent)])

RECURSIVE VisitDependentsNoEnqueue(_, _, _)
VisitDependentsNoEnqueue(dependents, i, st) ==
    IF i > Len(dependents) THEN st
    ELSE LET dependent == dependents[i]
         IN  VisitDependentsNoEnqueue(dependents, i + 1,
                 IF dependent \notin st.visited
                    THEN [visited |-> st.visited \cup {dependent},
                          downstream_affected |-> st.downstream_affected \cup {dependent},
                          queue |-> st.queue]
                    ELSE st)

RECURSIVE VisitDependents(_, _, _)
VisitDependents(dependents, i, st) ==
    IF i > Len(dependents) THEN st
    ELSE LET dependent == dependents[i]
         IN  VisitDependents(dependents, i + 1,
                 IF dependent \notin st.visited
                    THEN [visited |-> st.visited \cup {dependent},
                          downstream_affected |-> st.downstream_affected \cup {dependent},
                          queue |-> Append(st.queue, dependent)]
                    ELSE st)

\* list(affected_supplier_ids), in ascending order.
RECURSIVE ListOfSet(_)
ListOfSet(ids) ==
    IF ids = {} THEN <<>>
    ELSE LET least == CHOOSE x \in ids : \A y \in ids : x <= y
         IN  <<least>> \o ListOfSet(ids \ {least})

\* while queue: current = queue.pop(0); the for loop over its dependents.
RECURSIVE WhileQueue(_, _)
WhileQueue(reverse, st) ==
    IF st.queue = <<>> THEN st.downstream_affected
    ELSE WhileQueue(reverse,
             VisitDependents(GetOrEmpty(reverse, Head(st.queue)), 1,
                 [visited |-> st.visited,
                  downstream_affected |-> st.downstream_affected,
                  queue |-> Tail(st.queue)]))

\* find_downstream_impact(affected_supplier_ids, dependency_graph) as a
\* function of its arguments (the set is listed in ascending order).
find_downstream_impact(affected, graph) ==
    WhileQueue(InvertGraph(graph),
               [visited |-> affected, downstream_affected |-> {},
                queue |-> ListOfSet(affected)])

(***************************************************************************)
(* Strings are sequences of characters, so that str.lower() and the        *)
(* substring test `a in b` are computed.                                   *)
(***************************************************************************)
UpperCase ==
    <<"A", "B", "C", "D", "E", "F", "G", "H", "I", "J", "K", "L", "M", "N", "O", "P", "Q", "R", "S", "T", "U", "V", "W", "X", "Y", "Z">>
LowerCase ==
    <<"a", "b", "c", "d", "e", "f", "g", "h", "i", "j", "k", "l", "m", "n", "o", "p", "q", "r", "s", "t", "u", "v", "w", "x", "y", "z">>

\* The lower-case form of every character of the model's strings.
Characters == Range(UpperCase) \cup Range(LowerCase) \cup {" "}

LowerChar ==
    [c \in Characters |->
        IF \E i \in DOMAIN UpperCase : UpperCase[i] = c
            THEN LowerCase[CHOOSE i \in DOMAIN UpperCase : UpperCase[i] = c]
            ELSE c]

\* str.lower()
Lower(s) == [i \in DOMAIN s |-> LowerChar[s[i]]]

UpperChar ==
    [c \in Characters |->
        IF \E i \in DOMAIN LowerCase : LowerCase[i] = c
            THEN UpperCase[CHOOSE i \in DOMAIN LowerCase : LowerCase[i] = c]
            ELSE c]

\* str.upper()
Upper(s) == [i \in DOMAIN s |-> UpperChar[s[i]]]

\* needle in hay
IsSubstring(needle, hay) ==
    \E i \in 0..(Len(hay) - Len(needle)) : SubSeq(hay, i + 1, i + Len(needle)) = needle

Str_Taiwan == <<"T", "a", "i", "w", "a", "n">>
Str_TAIWAN == <<"T", "A", "I", "W", "A", "N">>
Str_Japan == <<"J", "a", "p", "a", "n">>
Str_Hsinchu == <<"H", "s", "i", "n", "c", "h", "u">>
Str_HSINCHU == <<"H", "S", "I", "N", "C", "H", "U">>
Str_Taipei == <<"T", "a", "i", "p", "e", "i">>
Str_Components == <<"C", "o", "m", "p", "o", "n", "e", "n", "t", "s">>
Str_ElectronicComponents ==
    <<"E", "l", "e", "c", "t", "r", "o", "n", "i", "c", " ", "C", "o", "m", "p", "o", "n", "e", "n", "t", "s">>
Str_component == <<"c", "o", "m", "p", "o", "n", "e", "n", "t">>
Str_Shipping == <<"S", "h", "i", "p", "p", "i", "n", "g">>
Str_Empty == <<>>

(***************************************************************************)
(* supplier_scoring.calculate_distance                                     *)
(***************************************************************************)
\* Haversine great-circle distance (Earth radius 6371 km) between the points
\* with latitude 0, 1, 2 and longitude 0, 2 (degrees), in metres: <<lat1, lon1, lat2, lon2>> -> distance.
HaversineMetres ==
    <<0, 0, 0, 0>> :> 0 @@ <<0, 0, 0, 2>> :> 222390 @@ <<0, 0, 1, 0>> :> 111195 @@
    <<0, 0, 1, 2>> :> 248629 @@ <<0, 0, 2, 0>> :> 222390 @@ <<0, 0, 2, 2>> :> 314475 @@
    <<0, 2, 0, 0>> :> 222390 @@ <<0, 2, 0, 2>> :> 0 @@ <<0, 2, 1, 0>> :> 248629 @@
    <<0, 2, 1, 2>> :> 111195 @@ <<0, 2, 2, 0>> :> 314475 @@ <<0, 2, 2, 2>> :> 222390 @@
    <<1, 0, 0, 0>> :> 111195 @@ <<1, 0, 0, 2>> :> 248629 @@ <<1, 0, 1, 0>> :> 0 @@
    <<1, 0, 1, 2>> :> 222356 @@ <<1, 0, 2, 0>> :> 111195 @@ <<1, 0, 2, 2>> :> 248569 @@
    <<1, 2, 0, 0>> :> 248629 @@ <<1, 2, 0, 2>> :> 111195 @@ <<1, 2, 1, 0>> :> 222356 @@
    <<1, 2, 1, 2>> :> 0 @@ <<1, 2, 2, 0>> :> 248569 @@ <<1, 2, 2, 2>> :> 111195 @@
    <<2, 0, 0, 0>> :> 222390 @@ <<2, 0, 0, 2>> :> 314475 @@ <<2, 0, 1, 0>> :> 111195 @@
    <<2, 0, 1, 2>> :> 248569 @@ <<2, 0, 2, 0>> :> 0 @@ <<2, 0, 2, 2>> :> 222254 @@
    <<2, 2, 0, 0>> :> 314475 @@ <<2, 2, 0, 2>> :> 222390 @@ <<2, 2, 1, 0>> :> 248569 @@
    <<2, 2, 1, 2>> :> 111195 @@ <<2, 2, 2, 0>> :> 222254 @@ <<2, 2, 2, 2>> :> 0

calculate_distance(lat1, lon1, lat2, lon2) == HaversineMetres[<<lat1, lon1, lat2, lon2>>]

(***************************************************************************)
(* supplier_matcher.SupplierMatcherAgent                                   *)
(*                                                                         *)
(* proximity_score is kept in millionths while it is computed (1.0 is      *)
(* 1000000) and in hundredths once rounded by round(x, 2).                 *)
(***************************************************************************)
\* Python's truth value of an optional float: None and 0.0 are false.
Truthy(x) == x.kind = "number" /\ x.value # 0

\* Python's truth value of an optional string: None and "" are false.
TruthyStr(s) == s.kind = "str" /\ s.value # Str_Empty

Max(a, b) == IF a >= b THEN a ELSE b
Min(a, b) == IF a <= b THEN a ELSE b

\* round(x, 2) of a value in millionths, in hundredths (ties to even).
Round2(x) ==
    LET q == x \div 10000
        r == x % 10000
    IN  IF r > 5000 \/ (r = 5000 /\ q % 2 = 1) THEN q + 1 ELSE q

\* .get("affected_radius_km", 500): the default only replaces an absent key.
DefaultRadiusKm == 500

affected_radius_of(event) ==
    IF event.affected_radius_km.kind = "absent"
        THEN Num(DefaultRadiusKm)
        ELSE event.affected_radius_km

\* _check_industry_impact: the first industry that contains, or is contained
\* in, the supplier's category (lower-cased); <<>> is the empty string.
RECURSIVE check_industry_impact_from(_, _, _)
check_industry_impact_from(industries_affected, supplier_category, i) ==
    IF i > Len(industries_affected) THEN <<>>
    ELSE LET industry == industries_affected[i]
         IN  IF \/ IsSubstring(Lower(industry), Lower(supplier_category))
                \/ IsSubstring(Lower(supplier_category), Lower(industry))
                THEN <<"Industry affected: ", industry>>
                ELSE check_industry_impact_from(industries_affected, supplier_category, i + 1)

check_industry_impact(event, sup) ==
    check_industry_impact_from(event.key_industries_affected, sup.category, 1)

Unaffected == [raised |-> "", is_affected |-> FALSE, proximity_score |-> 0, reason |-> ""]

\* Checks 1 and 2 (lines 42-51): country match, then city match inside it.
CountryCityCheckCityIgnored(event, sup) ==
    IF Lower(sup.country) = Lower(event.country)
        THEN [Unaffected EXCEPT !.is_affected = TRUE,
                                !.proximity_score = 1000000,
                                !.reason = "Located in directly affected city"]
        ELSE Unaffected

CountryCityCheck(event, sup) ==
    IF Lower(sup.country) = Lower(event.country)
        THEN IF /\ TruthyStr(event.city)
                /\ TruthyStr(sup.city)
                /\ Lower(sup.city.value) = Lower(event.city.value)
                THEN [Unaffected EXCEPT !.is_affected = TRUE,
                                        !.proximity_score = 1000000,
                                        !.reason = "Located in directly affected city"]
                ELSE [Unaffected EXCEPT !.is_affected = TRUE,
                                        !.proximity_score = 800000,
                                        !.reason = "Located in affected country"]
        ELSE Unaffected

\* Check 3 (lines 53-63): geographic proximity.  `distance <= None` raises
\* TypeError; a radius of 0 at distance 0 raises ZeroDivisionError.
DistanceCheckNoMax(event, sup, m) ==
    IF /\ Truthy(event.estimated_latitude)
       /\ Truthy(event.estimated_longitude)
       /\ Truthy(sup.latitude)
       /\ Truthy(sup.longitude)
        THEN LET distance == calculate_distance(
                     event.estimated_latitude.value, event.estimated_longitude.value,
                     sup.latitude.value, sup.longitude.value)
                 affected_radius == affected_radius_of(event).value
             IN  IF affected_radius_of(event).kind = "null"
                     THEN [m EXCEPT !.raised = "TypeError"]
                 ELSE IF distance <= affected_radius * 1000
                     THEN IF affected_radius = 0
                              THEN [m EXCEPT !.raised = "ZeroDivisionError"]
                              ELSE [m EXCEPT
                                      !.is_affected = TRUE,
                                      !.proximity_score =
                                          1000000 - ((1000 * distance) \div affected_radius),
                                      !.reason = "Within radius of incident"]
                 ELSE m
        ELSE m

DistanceCheck(event, sup, m) ==
    IF /\ Truthy(event.estimated_latitude)
       /\ Truthy(event.estimated_longitude)
       /\ Truthy(sup.latitude)
       /\ Truthy(sup.longitude)
        THEN LET distance == calculate_distance(
                     event.estimated_latitude.value, event.estimated_longitude.value,
                     sup.latitude.value, sup.longitude.value)
                 affected_radius == affected_radius_of(event).value
             IN  IF affected_radius_of(event).kind = "null"
                     THEN [m EXCEPT !.raised = "TypeError"]
                 ELSE IF distance <= affected_radius * 1000
                     THEN IF affected_radius = 0
                              THEN [m EXCEPT !.raised = "ZeroDivisionError"]
                              ELSE [m EXCEPT
                                      !.is_affected = TRUE,
                                      !.proximity_score =
                                          Max(m.proximity_score,
                                              1000000 - ((1000 * distance) \div affected_radius)),
                                      !.reason = "Within radius of incident"]
                 ELSE m
        ELSE m

\* Check 4 (lines 65-74): industry keywords, only if not yet affected.
IndustryCheck(event, sup, m) ==
    IF m.raised = "" /\ ~m.is_affected
        THEN LET industry_affected == check_industry_impact(event, sup)
             IN  IF industry_affected # <<>>
                     THEN [m EXCEPT !.is_affected = TRUE,
                                    !.proximity_score = 500000,
                                    !.reason = "Industry affected"]
                     ELSE m
        ELSE m

\* The body of `for supplier in suppliers` up to line 74.
EvaluateSupplier(event, sup) ==
    IndustryCheck(event, sup,
        DistanceCheck(event, sup,
            CountryCityCheck(event, sup)))

\* The entry appended at lines 77-89 (the fields copied unchanged from the
\* supplier row other than its id are left out).
AffectedEntry(sup, m) ==
    [supplier_id |-> sup.id,
     proximity_score |-> Round2(m.proximity_score),
     impact_reason |-> m.reason]

(***************************************************************************)
(* Inputs of the matcher                                                   *)
(***************************************************************************)
\* Suppliers of the organization scanned by one call.
MaxSuppliers == 2

\* Coordinates the parser estimated for the incident, and stored supplier
\* coordinates: <<latitude, longitude>>, each a float or null.
EventCoordinates ==
    {<<Null, Null>>, <<Null, Num(2)>>, <<Num(0), Num(2)>>, <<Num(1), Num(0)>>,
     <<Num(1), Num(2)>>}

SupplierCoordinates ==
    {<<Null, Null>>, <<Num(1), Null>>, <<Num(0), Num(2)>>, <<Num(1), Num(0)>>,
     <<Num(1), Num(2)>>, <<Num(2), Num(2)>>}

\* parsed_event as produced by the event parser: location.country,
\* location.city ("" when not mentioned), coordinates (float or null), the
\* radius (absent, null or a number of km) and the industries.
ParsedEvents ==
    {[country |-> Str_Taiwan,
      city |-> city,
      estimated_latitude |-> c[1],
      estimated_longitude |-> c[2],
      affected_radius_km |-> radius,
      key_industries_affected |-> industries] :
        city \in {Str(Str_Empty), Str(Str_Hsinchu)},
        c \in EventCoordinates,
        radius \in {Absent, Null, Num(0), Num(100), Num(1000)},
        industries \in {<<>>, <<Str_ElectronicComponents>>, <<Str_Shipping>>,
                        <<Str_Shipping, Str_component>>}}

\* Supplier rows: country is NOT NULL; city, latitude and longitude are nullable.
SupplierRows(id) ==
    {[id |-> id,
      country |-> country,
      city |-> city,
      category |-> Str_Components,
      latitude |-> c[1],
      longitude |-> c[2]] :
        country \in {Str_TAIWAN, Str_Japan},
        city \in {NullStr, Str(Str_HSINCHU), Str(Str_Taipei)},
        c \in SupplierCoordinates}

(***************************************************************************)
(* risk_calculator.py                                                      *)
(*                                                                         *)
(* Scores are in hundredths of a point; weights in hundredths; proximity   *)
(* scores in hundredths; money in dollars.                                 *)
(***************************************************************************)
CRITICALITY_WEIGHTS ==
    [c \in {"Low", "Medium", "High", "Critical"} |->
        CASE c = "Low" -> 25
          [] c = "Medium" -> 50
          [] c = "High" -> 75
          [] c = "Critical" -> 100]

TIER_MULTIPLIERS == [t \in {1, 2, 3} |-> CASE t = 1 -> 100 [] t = 2 -> 70 [] t = 3 -> 40]

\* calculate_supplier_impact_score with the severity scale turned around.
calculate_supplier_impact_scoreSeverityInverted(sup, severity, proximity) ==
    LET severity_contribution == ((6 - severity) * 50 * 100) \div 5
        criticality_contribution == CRITICALITY_WEIGHTS[sup.criticality] * 30
        tier_contribution == TIER_MULTIPLIERS[sup.tier] * 15
        proximity_contribution == proximity * 5
        impact_score == severity_contribution + criticality_contribution
                            + tier_contribution + proximity_contribution
    IN  Min(10000, impact_score)

\* calculate_supplier_impact_score(supplier, severity_level, proximity_score)
calculate_supplier_impact_score(sup, severity, proximity) ==
    LET severity_contribution == (severity * 50 * 100) \div 5
        criticality_contribution == CRITICALITY_WEIGHTS[sup.criticality] * 30
        tier_contribution == TIER_MULTIPLIERS[sup.tier] * 15
        proximity_contribution == proximity * 5
        impact_score == severity_contribution + criticality_contribution
                            + tier_contribution + proximity_contribution
    IN  Min(10000, impact_score)

RECURSIVE SumImpact(_, _)
SumImpact(suppliers, i) ==
    IF i > Len(suppliers) THEN 0
    ELSE suppliers[i].impact_score + SumImpact(suppliers, i + 1)

\* calculate_overall_risk_score(affected_suppliers, total_suppliers): the float
\* it returns, in ten-thousandths of a point (rounded down).
\*   risk = (total_impact / n) * (0.7 + 0.3 * n / total)
\*        = total_impact * (7 * total + 3 * n) / (10 * n * total)
calculate_overall_risk_score(suppliers, total) ==
    IF Len(suppliers) = 0 \/ total = 0
        THEN 0
        ELSE LET total_impact == SumImpact(suppliers, 1)
                 n == Len(suppliers)
                 risk_score == (total_impact * 100 * (7 * total + 3 * n))
                                   \div (10 * n * total)
             IN  Min(100 * 10000, risk_score)

RECURSIVE CountWhere(_, _, _)
CountWhere(suppliers, levels, i) ==
    IF i > Len(suppliers) THEN 0
    ELSE (IF suppliers[i].criticality \in levels THEN 1 ELSE 0) + CountWhere(suppliers, levels, i + 1)

\* calculate_financial_impact with the whole order value at risk every day.
calculate_financial_impactWholeOrder(suppliers) ==
    LET n_suppliers == Len(suppliers)
        daily_revenue_at_risk == n_suppliers * 100000
        critical_count == CountWhere(suppliers, {"Critical"}, 1)
        estimated_resolution_days == 7 + (critical_count * 3)
        total_estimated_loss == daily_revenue_at_risk * estimated_resolution_days
    IN  [daily_revenue_at_risk |-> daily_revenue_at_risk,
         estimated_resolution_days |-> estimated_resolution_days,
         total_estimated_loss |-> total_estimated_loss,
         expedited_shipping_cost |-> n_suppliers * 5000,
         alternative_sourcing_cost |-> n_suppliers * 10000,
         total_mitigation_cost |-> n_suppliers * 15000,
         net_impact |-> total_estimated_loss - n_suppliers * 15000]

\* calculate_financial_impact(affected_suppliers), avg_order_value = 100000.
calculate_financial_impact(suppliers) ==
    LET n_suppliers == Len(suppliers)    \* the local total_suppliers
        daily_revenue_at_risk == (n_suppliers * 100000) \div 10
        expedited_shipping_cost == n_suppliers * 5000
        alternative_sourcing_cost == n_suppliers * 10000
        critical_count == CountWhere(suppliers, {"Critical"}, 1)
        estimated_resolution_days == 7 + (critical_count * 3)
        total_estimated_loss == daily_revenue_at_risk * estimated_resolution_days
        total_mitigation_cost == expedited_shipping_cost + alternative_sourcing_cost
    IN  [daily_revenue_at_risk |-> daily_revenue_at_risk,
         estimated_resolution_days |-> estimated_resolution_days,
         total_estimated_loss |-> total_estimated_loss,
         expedited_shipping_cost |-> expedited_shipping_cost,
         alternative_sourcing_cost |-> alternative_sourcing_cost,
         total_mitigation_cost |-> total_mitigation_cost,
         net_impact |-> total_estimated_loss - total_mitigation_cost]

\* The risk_calculator strategy over one affected-supplier list: every supplier
\* scored, the overall score of the scored dicts, the financial impact.
CalculatorResult(suppliers, total, severity) ==
    LET scored == [i \in DOMAIN suppliers |->
                      [criticality |-> suppliers[i].criticality,
                       impact_score |->
                           calculate_supplier_impact_score(
                               suppliers[i], severity, suppliers[i].proximity_score)]]
    IN  [impact_scores |-> [i \in DOMAIN scored |-> scored[i].impact_score],
         overall_risk_score |-> calculate_overall_risk_score(scored, total),
         financial_impact |-> calculate_financial_impact(scored)]

(***************************************************************************)
(* risk_analyzer.RiskAnalyzerAgent                                         *)
(***************************************************************************)
\* round(num / den, 2) of a score in points given as num / den hundredths
\* (ties to even).
RoundRatio(num, den) ==
    LET q == num \div den
        r == num % den
    IN  IF 2 * r > den \/ (2 * r = den /\ q % 2 = 1) THEN q + 1 ELSE q

\* Lines 27-49: the impact score analyze_risk stores into a supplier dict.
AnalyzerImpactScoreUnclamped(sup, severity) ==
    LET base_score == (severity * 50 * 100) \div 5
        crit_bonus == CASE sup.criticality = "Low" -> 1000
                        [] sup.criticality = "Medium" -> 2000
                        [] sup.criticality = "High" -> 3000
                        [] sup.criticality = "Critical" -> 4000
                        [] OTHER -> 2000
        tier_bonus == CASE sup.tier = 1 -> 1500
                        [] sup.tier = 2 -> 1000
                        [] sup.tier = 3 -> 500
                        [] OTHER -> 1000
        proximity_bonus == sup.proximity_score * 10
    IN  base_score + crit_bonus + tier_bonus + proximity_bonus

AnalyzerImpactScore(sup, severity) ==
    LET base_score == (severity * 50 * 100) \div 5
        crit_bonus == CASE sup.criticality = "Low" -> 1000
                        [] sup.criticality = "Medium" -> 2000
                        [] sup.criticality = "High" -> 3000
                        [] sup.criticality = "Critical" -> 4000
                        [] OTHER -> 2000
        tier_bonus == CASE sup.tier = 1 -> 1500
                        [] sup.tier = 2 -> 1000
                        [] sup.tier = 3 -> 500
                        [] OTHER -> 1000
        proximity_bonus == sup.proximity_score * 10
        impact_score == base_score + crit_bonus + tier_bonus + proximity_bonus
    IN  Min(10000, impact_score)

\* supplier['impact_score'] = ... for every supplier of the list.
WithImpactScores(suppliers, severity) ==
    [i \in DOMAIN suppliers |->
        [criticality |-> suppliers[i].criticality,
         tier |-> suppliers[i].tier,
         proximity_score |-> suppliers[i].proximity_score,
         impact_score |-> AnalyzerImpactScore(suppliers[i], severity)]]

\* list.sort(key=impact_score, reverse=True): stable, highest first.
RECURSIVE InsertByImpact(_, _)
InsertByImpact(sorted, s) ==
    IF sorted = <<>> THEN <<s>>
    ELSE IF Head(sorted).impact_score >= s.impact_score
        THEN <<Head(sorted)>> \o InsertByImpact(Tail(sorted), s)
        ELSE <<s>> \o sorted

RECURSIVE SortByImpact(_, _, _)
SortByImpact(suppliers, i, sorted) ==
    IF i > Len(suppliers) THEN sorted
    ELSE SortByImpact(suppliers, i + 1, InsertByImpact(sorted, suppliers[i]))

\* Lines 54-62: overall risk, in hundredths, or the exception raised.
\*   avg_impact * (0.7 + 0.3 * n / max(total, 1))
AnalyzerOverallRiskNoEmptyBranch(suppliers, total) ==
    IF Len(suppliers) = 0
        THEN [raised |-> "ZeroDivisionError", value |-> 0]
        ELSE LET n == Len(suppliers)
                 t == Max(total, 1)
                 num == SumImpact(suppliers, 1) * (7 * t + 3 * n)
                 den == 10 * n * t
             IN  [raised |-> "",
                  value |-> IF num >= 10000 * den THEN 10000 ELSE RoundRatio(num, den)]

AnalyzerOverallRisk(suppliers, total) ==
    IF Len(suppliers) # 0
        THEN LET n == Len(suppliers)
                 t == Max(total, 1)
                 num == SumImpact(suppliers, 1) * (7 * t + 3 * n)
                 den == 10 * n * t
             IN  [raised |-> "",
                  value |-> IF num >= 10000 * den THEN 10000 ELSE RoundRatio(num, den)]
        ELSE [raised |-> "", value |-> 0]

\* _categorize_risk_level with exclusive lower bounds.
categorize_risk_levelExclusive(risk_score) ==
    IF risk_score > 8000 THEN "CRITICAL"
    ELSE IF risk_score > 6000 THEN "HIGH"
    ELSE IF risk_score > 4000 THEN "MEDIUM"
    ELSE IF risk_score > 2000 THEN "LOW"
    ELSE "MINIMAL"

\* _categorize_risk_level(risk_score)
categorize_risk_level(risk_score) ==
    IF risk_score >= 8000 THEN "CRITICAL"
    ELSE IF risk_score >= 6000 THEN "HIGH"
    ELSE IF risk_score >= 4000 THEN "MEDIUM"
    ELSE IF risk_score >= 2000 THEN "LOW"
    ELSE "MINIMAL"

\* Lines 64-79: the critical suppliers and the financial impact.
AnalyzerFinancialImpact(suppliers) ==
    LET n == Len(suppliers)
        critical_suppliers ==
            CountWhere(suppliers, {"Critical", "High"}, 1)
    IN  [daily_revenue_at_risk |-> n * 10000,
         estimated_resolution_days |-> 7 + critical_suppliers * 3,
         total_estimated_loss |-> n * 10000 * (7 + critical_suppliers * 3),
         expedited_shipping_cost |-> n * 5000,
         alternative_sourcing_cost |-> n * 10000,
         total_mitigation_cost |-> n * 15000,
         net_impact |-> (n * 10000 * (7 + critical_suppliers * 3)) - (n * 15000)]

\* analyze_risk(parsed_event, affected_suppliers, total_suppliers, severity_level)
analyze_risk(suppliers, total, severity) ==
    LET scored == WithImpactScores(suppliers, severity)
        sorted == SortByImpact(scored, 1, <<>>)
        overall_risk == AnalyzerOverallRisk(sorted, total)
    IN  IF overall_risk.raised # ""
            THEN [raised |-> overall_risk.raised, affected_suppliers |-> sorted]
            ELSE [raised |-> "",
                  success |-> TRUE,
                  overall_risk_score |-> overall_risk.value,
                  risk_level |-> categorize_risk_level(overall_risk.value),
                  affected_suppliers |-> sorted,
                  financial_impact |-> AnalyzerFinancialImpact(sorted)]

(***************************************************************************)
(* Inputs of the risk computations                                         *)
(***************************************************************************)
\* Length of the affected-supplier list.
MaxAffected == 2

\* An affected-supplier dict as the matcher emits it (the fields the risk
\* computations read).
AffectedDicts ==
    [criticality : {"Low", "Medium", "High", "Critical"},
     tier : {1, 2, 3},
     proximity_score : {0, 100}]

SeverityLevels == 1..5

TotalSupplierCounts == {0, 1, 3}

(***************************************************************************)
(* supplier_scoring.score_alternative_supplier, rank_alternative_suppliers *)
(*                                                                         *)
(* Criterion scores are in points; total_score is in hundredths of a point *)
(* once rounded by round(x, 2).  An event location is None or a pair.      *)
(***************************************************************************)
NoEventLocation == [kind |-> "none", lat |-> 0, lon |-> 0]
EventLocation(lat, lon) == [kind |-> "tuple", lat |-> lat, lon |-> lon]

\* score_alternative_supplier(alternative, affected_supplier, event_location).
\* The weighted total, 0.25 g + 0.20 c + 0.25 r + 0.20 l + 0.10 t points with
\*   g = min(100, distance / 2000 * 100)  or 70 / 30 without coordinates,
\*   c = 100 - capacity_utilization, r = reliability_score,
\*   l = max(0, 100 - lead_time_days / 90 * 100), t = 100 / 50 / 20,
\* is kept as a numerator over 720000 until it is rounded.
score_alternative_supplier(alternative, affected, event_location) ==
    LET geographic_distance ==
            IF /\ event_location.kind = "tuple"
               /\ Truthy(alternative.latitude)
               /\ Truthy(alternative.longitude)
                THEN Min(100 * 180000,
                         9 * calculate_distance(event_location.lat, event_location.lon,
                                                alternative.latitude.value,
                                                alternative.longitude.value))
            ELSE IF alternative.country # affected.country
                THEN 70 * 180000
            ELSE 30 * 180000
        capacity_availability == (100 - alternative.capacity_utilization) * 144000
        reliability == alternative.reliability_score * 180000
        lead_time == 1600 * Max(0, 9000 - 100 * alternative.lead_time_days)
        tier_match ==
            (IF alternative.tier = affected.tier THEN 100
             ELSE IF alternative.tier - affected.tier \in {1, -1} THEN 50
             ELSE 20) * 72000
        total_score == geographic_distance + capacity_availability + reliability
                           + lead_time + tier_match
    IN  [supplier_id |-> alternative.id,
         total_score |-> RoundRatio(total_score, 7200),
         details |-> [country |-> alternative.country,
                      category |-> alternative.category,
                      tier |-> alternative.tier]]

\* list.sort(key=total_score, reverse=True): stable, highest first.
RECURSIVE InsertByTotalScore(_, _)
InsertByTotalScore(sorted, s) ==
    IF sorted = <<>> THEN <<s>>
    ELSE IF Head(sorted).total_score >= s.total_score
        THEN <<Head(sorted)>> \o InsertByTotalScore(Tail(sorted), s)
        ELSE <<s>> \o sorted

RECURSIVE SortByTotalScore(_, _, _)
SortByTotalScore(scored, i, sorted) ==
    IF i > Len(scored) THEN sorted
    ELSE SortByTotalScore(scored, i + 1, InsertByTotalScore(sorted, scored[i]))

\* scored_alternatives[:top_n] for top_n >= 0.
Slice(list, n) == SubSeq(list, 1, Min(n, Len(list)))

\* rank_alternative_suppliers without the sort.
rank_alternative_suppliersUnsorted(alts, affected, event_location, n) ==
    LET scored_alternatives ==
            [i \in DOMAIN alts |->
                score_alternative_supplier(alts[i], affected, event_location)]
    IN  Slice(scored_alternatives, n)

\* rank_alternative_suppliers(alternatives, affected_supplier, event_location, top_n)
rank_alternative_suppliers(alts, affected, event_location, n) ==
    LET scored_alternatives ==
            [i \in DOMAIN alts |->
                score_alternative_supplier(alts[i], affected, event_location)]
    IN  Slice(SortByTotalScore(scored_alternatives, 1, <<>>), n)

(***************************************************************************)
(* recommendation_generator._find_alternative_suppliers                    *)
(***************************************************************************)
\* The rows of a list that satisfy the filter, in the order of the list.
RECURSIVE FilterRows(_, _, _, _)
FilterRows(rows, ids_excluded, category, i) ==
    IF i > Len(rows) THEN <<>>
    ELSE (IF rows[i].id \notin ids_excluded /\ rows[i].category = category
              THEN <<rows[i]>> ELSE <<>>)
             \o FilterRows(rows, ids_excluded, category, i + 1)

\* potential_alternatives without the "not affected" condition.
PotentialAlternativesAffectedKept(org_suppliers, affected_ids, affected) ==
    FilterRows(org_suppliers, {}, affected.category, 1)

\* Lines 87-91: same category, not affected.
PotentialAlternatives(org_suppliers, affected_ids, affected) ==
    FilterRows(org_suppliers, affected_ids, affected.category, 1)

\* db.query(Supplier).filter(Supplier.organization_id == organization_id).all()
RECURSIVE SuppliersOfOrganization(_, _, _)
SuppliersOfOrganization(table, organization_id, i) ==
    IF i > Len(table) THEN <<>>
    ELSE (IF table[i].organization_id = organization_id THEN <<table[i]>> ELSE <<>>)
             \o SuppliersOfOrganization(table, organization_id, i + 1)

\* Lines 68-74: the incident's coordinates, when both are truthy.
event_location_of(loc) ==
    IF Truthy(loc.estimated_latitude) /\ Truthy(loc.estimated_longitude)
        THEN EventLocation(loc.estimated_latitude.value, loc.estimated_longitude.value)
        ELSE NoEventLocation

\* Lines 78-108: the loop over the affected suppliers; the values of
\* alternatives_by_supplier in insertion order.
RECURSIVE AlternativesBySupplier(_, _, _, _, _)
AlternativesBySupplier(table, org_suppliers, affected, event_location, i) ==
    IF i > Len(affected) THEN <<>>
    ELSE LET supplier_id == affected[i].supplier_id
             rest == AlternativesBySupplier(table, org_suppliers, affected,
                                            event_location, i + 1)
         IN  IF supplier_id \notin DOMAIN table
                 THEN rest
                 ELSE LET affected_ids == {affected[j].supplier_id : j \in DOMAIN affected}
                          potential_alternatives ==
                              PotentialAlternatives(org_suppliers, affected_ids,
                                                    table[supplier_id])
                      IN  IF potential_alternatives = <<>>
                              THEN rest
                              ELSE <<[affected_supplier_id |-> supplier_id,
                                      category |-> affected[i].category,
                                      alternatives |->
                                          rank_alternative_suppliers(
                                              potential_alternatives,
                                              table[supplier_id],
                                              event_location, 3)]>> \o rest

\* _find_alternative_suppliers(db, organization_id, affected_suppliers, parsed_event)
find_alternative_suppliers(table, organization_id, affected, loc) ==
    AlternativesBySupplier(table, SuppliersOfOrganization(table, organization_id, 1),
                           affected, event_location_of(loc), 1)

(***************************************************************************)
(* Inputs of the ranking                                                   *)
(***************************************************************************)
\* Rows of the Supplier table.
MaxTableRows == 3

\* Largest top_n of a direct call.
MaxTopN == 3

\* The organization of the incident.
OrganizationId == 1

\* A stored supplier.  Country, coordinates, tier and lead time follow from
\* the id, so that neighbouring ids differ in every criterion.
TableRows(id) ==
    [id : {id},
     organization_id : {1, 2},
     category : {"Components", "Logistics"},
     country : {IF id % 2 = 1 THEN Str_TAIWAN ELSE Str_Japan},
     latitude : {IF id % 3 = 0 THEN Null ELSE Num(id % 3)},
     longitude : {IF id % 3 = 0 THEN Null ELSE Num(2)},
     tier : {1 + (id % 3)},
     lead_time_days : {IF id % 2 = 1 THEN 30 ELSE 120},
     reliability_score : {80, 90},
     capacity_utilization : {70}]

SupplierTables ==
    UNION {{t \in [1..k -> UNION {TableRows(id) : id \in 1..k}] :
               \A i \in 1..k : t[i].id = i} : k \in 1..MaxTableRows}

\* Strictly increasing sequences of ids.
IncreasingIds(ids) ==
    {q \in SeqsUpTo(ids, Cardinality(ids)) :
        \A i \in DOMAIN q : \A j \in DOMAIN q : i < j => q[i] < q[j]}

\* The incident's location as the parser gives it.
IncidentLocations ==
    {[estimated_latitude |-> Null, estimated_longitude |-> Null],
     [estimated_latitude |-> Num(0), estimated_longitude |-> Num(2)],
     [estimated_latitude |-> Num(1), estimated_longitude |-> Num(2)]}

\* Candidates of a direct call: suppliers of one organization and category.
CandidateRows(id) ==
    {r \in TableRows(id) : r.organization_id = OrganizationId /\ r.category = "Components"}

(***************************************************************************)
(* Actions of the ranking                                                  *)
(***************************************************************************)
RankInit ==
    /\ kpc = "idle"
    /\ all_suppliers = <<>>
    /\ rec_affected_suppliers = <<>>
    /\ rec_event_location = None
    /\ alternative_suppliers = <<>>
    /\ alternatives = <<>>
    /\ affected_supplier = None
    /\ top_n = 0
    /\ ranked_alternatives = <<>>

\* _find_alternative_suppliers for the affected suppliers of one incident:
\* suppliers of the organization found by the matcher.
FindAlternativeSuppliers ==
    /\ kpc = "idle"
    /\ \E table \in SupplierTables, loc \in IncidentLocations :
       \E ids \in IncreasingIds({i \in DOMAIN table :
                                    table[i].organization_id = OrganizationId}) :
           /\ all_suppliers' = table
           /\ rec_event_location' = loc
           /\ rec_affected_suppliers' =
                  [i \in DOMAIN ids |->
                      [supplier_id |-> ids[i], category |-> table[ids[i]].category]]
           /\ alternative_suppliers' =
                  find_alternative_suppliers(
                      table, OrganizationId,
                      [i \in DOMAIN ids |->
                          [supplier_id |-> ids[i], category |-> table[ids[i]].category]],
                      loc)
    /\ kpc' = "found"
    /\ UNCHANGED <<alternatives, affected_supplier, top_n, ranked_alternatives>>
    /\ UNCHANGED <<cascadeVars, matchVars, riskVars, alertVars, pipelineVars, eventsVars, workerVars>>

\* rank_alternative_suppliers on a candidate list, with any top_n >= 0.
RankAlternativeSuppliers ==
    /\ kpc = "idle"
    /\ \E ids \in IncreasingIds(1..MaxTableRows), loc \in IncidentLocations,
          n \in 0..MaxTopN, affected \in TableRows(1) :
       \E alts \in {q \in [DOMAIN ids -> UNION {CandidateRows(id) : id \in 1..MaxTableRows}] :
                       \A i \in DOMAIN ids : q[i].id = ids[i]} :
           /\ affected.organization_id = OrganizationId
           /\ affected.category = "Components"
           /\ affected.reliability_score = 80
           /\ alternatives' = alts
           /\ affected_supplier' = affected
           /\ rec_event_location' = loc
           /\ top_n' = n
           /\ ranked_alternatives' =
                  rank_alternative_suppliers(alts, affected, event_location_of(loc), n)
    /\ kpc' = "ranked"
    /\ UNCHANGED <<all_suppliers, rec_affected_suppliers, alternative_suppliers>>
    /\ UNCHANGED <<cascadeVars, matchVars, riskVars, alertVars, pipelineVars, eventsVars, workerVars>>

RankNext ==
    \/ FindAlternativeSuppliers
    \/ RankAlternativeSuppliers

(***************************************************************************)
(* live_feeds.LiveFeedService, live_feeds.AlertDetector                    *)
(*                                                                         *)
(* An event dict is a record; its location is None or a dict with country, *)
(* lat and lon (0 when the feed gave none).  A criticality is the string   *)
(* value of the CriticalityLevel member, or a plain string in an event     *)
(* dict handed to the detector directly.                                   *)
(***************************************************************************)
NoLocation == [kind |-> "none", country |-> <<>>, lat |-> 0, lon |-> 0]
Location(country, lat, lon) == [kind |-> "dict", country |-> country, lat |-> lat, lon |-> lon]

\* impact_radius.get(event_type, 100), in km.
impact_radius(event_type) ==
    CASE event_type = "NATURAL_DISASTER" -> 500
      [] event_type = "WEATHER_EVENT" -> 300
      [] event_type = "LABOR_DISPUTE" -> 50
      [] event_type = "INDUSTRIAL_ACCIDENT" -> 100
      [] event_type = "LOGISTICS_DISRUPTION" -> 200
      [] OTHER -> 100

\* LiveFeedService._calculate_distance: the same Haversine formula, in metres.
feed_calculate_distance(lat1, lon1, lat2, lon2) == HaversineMetres[<<lat1, lon1, lat2, lon2>>]

\* LiveFeedService._is_supplier_affected(supplier, event_location, event_type)
is_supplier_affected(sup, event_location, event_type) ==
    IF /\ event_location.country # <<>>
       /\ sup.country # <<>>
       /\ IsSubstring(Upper(event_location.country), Upper(sup.country))
        THEN TRUE
    ELSE IF event_location.lat # 0 /\ event_location.lon # 0
        THEN feed_calculate_distance(sup.latitude, sup.longitude,
                                     event_location.lat, event_location.lon)
                 <= impact_radius(event_type) * 1000
    ELSE FALSE

\* The affected-supplier dicts of one event, in the order of the suppliers.
RECURSIVE MatchSuppliers(_, _, _)
MatchSuppliers(event, suppliers, i) ==
    IF i > Len(suppliers) THEN <<>>
    ELSE LET sup == suppliers[i]
             rest == MatchSuppliers(event, suppliers, i + 1)
         IN  IF is_supplier_affected(sup, event.location, event.event_type)
                 THEN <<[supplier_id |-> sup.id,
                         distance_km |->
                             feed_calculate_distance(sup.latitude, sup.longitude,
                                                     event.location.lat,
                                                     event.location.lon) \div 1000,
                         criticality |-> sup.criticality]>> \o rest
                 ELSE rest

RECURSIVE CountCriticality(_, _, _)
CountCriticality(affected, level, i) ==
    IF i > Len(affected) THEN 0
    ELSE (IF affected[i].criticality = level THEN 1 ELSE 0)
             + CountCriticality(affected, level, i + 1)

\* event.get("affected_count", 0)
affected_count_of(event) ==
    IF event.affected_count.kind = "absent" THEN 0 ELSE event.affected_count.value

\* AlertDetector._should_trigger_alert(event)
should_trigger_alert(event) ==
    IF event.severity \in {"HIGH", "CRITICAL"} THEN TRUE
    ELSE IF CountCriticality(event.affected_suppliers, "CRITICAL", 1) > 0 THEN TRUE
    ELSE IF affected_count_of(event) >= 3 THEN TRUE
    ELSE FALSE

\* AlertDetector._calculate_impact_score(event), in points.
calculate_impact_score(event) ==
    LET severity_score == CASE event.severity = "CRITICAL" -> 40
                            [] event.severity = "HIGH" -> 30
                            [] event.severity = "MEDIUM" -> 20
                            [] event.severity = "LOW" -> 10
                            [] OTHER -> 20
        critical_count == CountCriticality(event.affected_suppliers, "CRITICAL", 1)
        score == severity_score + Min(affected_count_of(event) * 5, 30)
                     + Min(critical_count * 10, 30)
    IN  Min(score, 100)

\* AlertDetector._create_alert(event): the fields computed from the event.
create_alert(event) ==
    [severity |-> event.severity,
     impact_score |-> calculate_impact_score(event),
     affected_suppliers |-> event.affected_suppliers,
     affected_count |-> affected_count_of(event)]

(***************************************************************************)
(* Inputs of the alert scan                                                *)
(***************************************************************************)
\* Suppliers with locations in the database.
MaxFeedSuppliers == 3

Severities == {"LOW", "MEDIUM", "HIGH", "CRITICAL"}

CriticalityLevels == {"Low", "Medium", "High", "Critical"}

\* A stored supplier with coordinates: the ones in Taiwan at (1, 2), the ones
\* in Japan at (2, 0).
FeedSupplierRows(id) ==
    {[id |-> id, country |-> Str_TAIWAN, latitude |-> 1, longitude |-> 2, criticality |-> c] :
        c \in CriticalityLevels}
    \cup
    {[id |-> id, country |-> Str_Japan, latitude |-> 2, longitude |-> 0, criticality |-> c] :
        c \in CriticalityLevels}

FeedSupplierLists ==
    UNION {{ss \in [1..k -> UNION {FeedSupplierRows(id) : id \in 1..k}] :
               \A i \in 1..k : ss[i].id = i} : k \in 0..MaxFeedSuppliers}

\* An event as the feeds standardise it, not yet matched.
FeedEvents ==
    [severity : Severities,
     event_type : {"NATURAL_DISASTER", "LABOR_DISPUTE", "OTHER"},
     location : {NoLocation, Location(Str_Taiwan, 0, 0), Location(Str_Taiwan, 1, 2),
                 Location(Str_Empty, 1, 2), Location(Str_Empty, 0, 2)},
     affected_suppliers : {<<>>},
     affected_count : {Absent}]

\* An event dict handed to the detector's functions directly.
EventDicts ==
    [severity : Severities,
     event_type : {"OTHER"},
     location : {NoLocation},
     affected_suppliers :
         SeqsUpTo([supplier_id : {1}, distance_km : {0},
                   criticality : {"Low", "Critical", "CRITICAL"}], 2),
     affected_count : {Absent, Num(1), Num(2), Num(3), Num(7)}]

(***************************************************************************)
(* Actions of the alert scan                                               *)
(***************************************************************************)
AlertInit ==
    /\ apc = "idle"
    /\ feed_suppliers = <<>>
    /\ feed_event = None
    /\ triggered = FALSE
    /\ alert = None

\* match_events_to_suppliers for one event of the scan: the event is skipped
\* when it has no location or affects no supplier, and otherwise gets
\* affected_suppliers and affected_count and is appended to matched_events.
MatchEventsToSuppliers ==
    /\ apc = "idle"
    /\ \E suppliers \in FeedSupplierLists, event \in FeedEvents :
           /\ feed_suppliers' = suppliers
           /\ IF event.location.kind = "none"
                  THEN /\ feed_event' = event
                       /\ apc' = "skipped"
                  ELSE \E affected \in {MatchSuppliers(event, suppliers, 1)} :
                           IF affected # <<>>
                               THEN /\ feed_event' =
                                           [event EXCEPT
                                               !.affected_suppliers = affected,
                                               !.affected_count = Num(Len(affected))]
                                    /\ apc' = "matched"
                               ELSE /\ feed_event' = event
                                    /\ apc' = "skipped"
    /\ UNCHANGED <<triggered, alert>>
    /\ UNCHANGED <<cascadeVars, matchVars, riskVars, rankVars, pipelineVars, eventsVars, workerVars>>

\* scan_for_alerts, step 3, for one matched event.
GenerateAlert ==
    /\ apc = "matched"
    /\ triggered' = should_trigger_alert(feed_event)
    /\ IF should_trigger_alert(feed_event)
           THEN /\ alert' = create_alert(feed_event)
                /\ apc' = "alerted"
           ELSE /\ alert' = alert
                /\ apc' = "filtered"
    /\ UNCHANGED <<feed_suppliers, feed_event>>
    /\ UNCHANGED <<cascadeVars, matchVars, riskVars, rankVars, pipelineVars, eventsVars, workerVars>>

\* _should_trigger_alert and _calculate_impact_score on an event dict.
CallAlertDetector ==
    /\ apc = "idle"
    /\ \E event \in EventDicts :
           /\ feed_event' = event
           /\ triggered' = should_trigger_alert(event)
           /\ alert' = create_alert(event)
    /\ apc' = "called"
    /\ UNCHANGED feed_suppliers
    /\ UNCHANGED <<cascadeVars, matchVars, riskVars, rankVars, pipelineVars, eventsVars, workerVars>>

AlertNext ==
    \/ MatchEventsToSuppliers
    \/ GenerateAlert
    \/ CallAlertDetector

(***************************************************************************)
(* orchestrator.AgentOrchestrator.process_event                            *)
(* recommendation_generator._generate_strategic_recommendations           *)
(* playbook_generator.PlaybookGeneratorAgent                               *)
(*                                                                         *)
(* A Python value that is None, a dict or a list is a record with its      *)
(* kind; an exception raised inside a step is handled, as in the code, by  *)
(* the step's except clause and then by the outer one.                     *)
(***************************************************************************)
NoneValue == [kind |-> "none", immediate_actions |-> <<>>]
DictValue(immediate_actions) == [kind |-> "dict", immediate_actions |-> immediate_actions]
ListValue == [kind |-> "list", immediate_actions |-> <<>>]

\* _generate_strategic_recommendations: json.loads of the answer, or what the
\* except clause returns (its body is `pass`: the function returns None).
generate_strategic_recommendations(response) ==
    CASE response.kind = "exception" -> NoneValue
      [] response.kind = "invalid_json" -> NoneValue
      [] response.kind = "json_list" -> ListValue
      [] response.kind = "json_dict" -> DictValue(response.immediate_actions)

\* generate_recommendations: the success flag and the strategic
\* recommendations of the dict it returns.
generate_recommendations(response) ==
    [success |-> TRUE,
     strategic_recommendations |-> generate_strategic_recommendations(response)]

\* The items of immediate[:3] that are dicts.
RECURSIVE DictItems(_, _)
DictItems(items, i) ==
    IF i > Min(3, Len(items)) THEN 0
    ELSE (IF items[i] = "dict" THEN 1 ELSE 0) + DictItems(items, i + 1)

\* _generate_phases, lines 87-96:
\*   recommendations.get('strategic_recommendations', {}).get('immediate_actions', [])
\* The key is always present, so the default {} never applies; .get on None or
\* on a list raises AttributeError.
generate_phases(recommendations) ==
    IF recommendations.strategic_recommendations.kind # "dict"
        THEN [raised |-> "AttributeError", day_1_actions |-> 0]
        ELSE [raised |-> "",
              day_1_actions |->
                  4 + DictItems(recommendations.strategic_recommendations.immediate_actions, 1)]

\* generate_playbook(parsed_event, risk_analysis, recommendations, affected_suppliers)
generate_playbook(risk_level, recommendations) ==
    LET phases == generate_phases(recommendations)
    IN  IF phases.raised # ""
            THEN [raised |-> phases.raised, success |-> FALSE,
                  risk_level |-> risk_level, day_1_actions |-> 0]
            ELSE [raised |-> "", success |-> TRUE,
                  risk_level |-> risk_level, day_1_actions |-> phases.day_1_actions]

\* The log entry of a step with its final status, and the entry the outer
\* except clause appends.
LogEntry(agent, status) == [agent |-> agent, status |-> status]

(***************************************************************************)
(* Inputs of the pipeline                                                  *)
(***************************************************************************)
\* Affected suppliers of one incident.
MaxPipelineAffected == 2

\* Items of the model's immediate_actions list.
MaxLLMItems == 4

RiskLevels == {"MINIMAL", "LOW", "MEDIUM", "HIGH", "CRITICAL"}

\* What the call of the model in step 5 gives: an exception, a text that is
\* not JSON, JSON that is a list, or a JSON object whose immediate_actions
\* are dicts or plain strings.
LLMResponses ==
    {[kind |-> "exception", immediate_actions |-> <<>>],
     [kind |-> "invalid_json", immediate_actions |-> <<>>],
     [kind |-> "json_list", immediate_actions |-> <<>>]}
    \cup
    {[kind |-> "json_dict", immediate_actions |-> items] :
        items \in SeqsUpTo({"dict", "str"}, MaxLLMItems)}

\* overall_risk_score values analyze_risk may return, one for each risk level
PipelineRiskScores == {0, 3000, 5000, 7000, 9000}

\* The cascading lists step 3 may have built, whole or in part.
CascadingLists == {<<>>, <<3>>, <<3, 4>>}

\* analyze_risk has not been called.
NoArguments == [called |-> FALSE, affected |-> 0, cascading |-> <<>>]

\* The order of the statements of process_event with the cascade step skipped.
AfterStepCascadeSkipped(step) ==
    CASE step = "step1" -> "step2"
      [] step = "step2" -> "step4"
      [] step = "step3" -> "step4"
      [] step = "step4" -> "step5"
      [] step = "step5" -> "step6"
      [] step = "step6" -> "update"

\* The order of the statements of process_event: what follows a step that
\* did not raise.
AfterStep(step) ==
    CASE step = "step1" -> "step2"
      [] step = "step2" -> "step3"
      [] step = "step3" -> "step4"
      [] step = "step4" -> "step5"
      [] step = "step5" -> "step6"
      [] step = "step6" -> "update"

\* The except clause of step 3 keeping what the loop had appended.
cascading_after_exceptionPartialKept(partial) == partial

\* Line 133, the except clause of step 3: cascading_suppliers = [].
cascading_after_exception(partial) == <<>>

\* Lines 140-146: the arguments of analyze_risk.
risk_arguments_of(affected, cascading) ==
    [called |-> TRUE, affected |-> affected, cascading |-> cascading]

(***************************************************************************)
(* Actions of the pipeline                                                 *)
(***************************************************************************)
PipelineInit ==
    /\ opc = "idle"
    /\ processing_status = "pending"
    /\ agent_logs = <<>>
    /\ pipeline_affected = 0
    /\ pipeline_risk_level = "MINIMAL"
    /\ llm_response = None
    /\ recommendation_result = None
    /\ playbook_result = None
    /\ process_result = None
    /\ steps_started = <<>>
    /\ cascade_outcome = "none"
    /\ cascading_suppliers = <<>>
    /\ risk_arguments = NoArguments
    /\ pipeline_risk_score = 0
    /\ current_risk_score = 0
    /\ risk_history = <<>>

\* Lines 48-50: processing_status = "processing".
StartProcessing ==
    /\ opc = "idle"
    /\ processing_status' = "processing"
    /\ opc' = "step1"
    /\ UNCHANGED <<agent_logs, pipeline_affected, pipeline_risk_level, llm_response,
                   recommendation_result, playbook_result, process_result>>
    /\ UNCHANGED <<steps_started, cascade_outcome, cascading_suppliers, risk_arguments,
                   pipeline_risk_score, current_risk_score, risk_history>>
    /\ UNCHANGED <<cascadeVars, matchVars, riskVars, alertVars, rankVars, eventsVars, workerVars>>

\* An outer except clause that leaves the status as it is.
FailedStatusKept(logs) ==
    /\ UNCHANGED processing_status
    /\ agent_logs' = Append(logs, LogEntry("Orchestrator", "failed"))
    /\ process_result' = [success |-> FALSE]
    /\ opc' = "returned"

\* The outer except clause, lines 266-292, after a step has raised.
Failed(logs) ==
    /\ processing_status' = "failed"
    /\ agent_logs' = Append(logs, LogEntry("Orchestrator", "failed"))
    /\ process_result' = [success |-> FALSE]
    /\ opc' = "returned"

\* Step 1: the parser reports success or not; no success raises.
Step1ParseEvent ==
    /\ opc = "step1"
    /\ steps_started' = Append(steps_started, "parse")
    /\ \E success \in BOOLEAN :
           IF success
               THEN /\ agent_logs' = Append(agent_logs, LogEntry("Event Parser", "completed"))
                    /\ opc' = AfterStep("step1")
                    /\ UNCHANGED <<processing_status, process_result>>
               ELSE Failed(Append(agent_logs, LogEntry("Event Parser", "failed")))
    /\ UNCHANGED <<pipeline_affected, pipeline_risk_level, llm_response,
                   recommendation_result, playbook_result>>
    /\ UNCHANGED <<cascade_outcome, cascading_suppliers, risk_arguments,
                   pipeline_risk_score, current_risk_score, risk_history>>
    /\ UNCHANGED <<cascadeVars, matchVars, riskVars, alertVars, rankVars, eventsVars, workerVars>>

\* Step 2: find_affected_suppliers returns the affected suppliers or raises.
Step2FindAffectedSuppliers ==
    /\ opc = "step2"
    /\ steps_started' = Append(steps_started, "match")
    /\ \E raised \in BOOLEAN, n \in 0..MaxPipelineAffected :
           IF ~raised
               THEN /\ pipeline_affected' = n
                    /\ agent_logs' = Append(agent_logs, LogEntry("Supplier Matcher", "completed"))
                    /\ opc' = AfterStep("step2")
                    /\ UNCHANGED <<processing_status, process_result>>
               ELSE /\ n = 0
                    /\ UNCHANGED pipeline_affected
                    /\ Failed(Append(agent_logs, LogEntry("Supplier Matcher", "failed")))
    /\ UNCHANGED <<pipeline_risk_level, llm_response, recommendation_result,
                   playbook_result>>
    /\ UNCHANGED <<cascade_outcome, cascading_suppliers, risk_arguments,
                   pipeline_risk_score, current_risk_score, risk_history>>
    /\ UNCHANGED <<cascadeVars, matchVars, riskVars, alertVars, rankVars, eventsVars, workerVars>>

\* Step 3, lines 110-133: the dependency graph, the downstream search and the
\* loading of the cascading suppliers.  An exception anywhere inside is
\* printed and the cascading list is emptied; nothing is logged and the
\* affected list is not touched.
Step3AnalyzeCascading ==
    /\ opc = "step3"
    /\ steps_started' = Append(steps_started, "cascade")
    /\ \E raised \in BOOLEAN, built \in CascadingLists :
           IF ~raised
               THEN /\ cascade_outcome' = "ok"
                    /\ cascading_suppliers' = built
               ELSE /\ cascade_outcome' = "raised"
                    /\ cascading_suppliers' = cascading_after_exception(built)
    /\ opc' = AfterStep("step3")
    /\ UNCHANGED <<processing_status, agent_logs, pipeline_affected, pipeline_risk_level,
                   llm_response, recommendation_result, playbook_result, process_result>>
    /\ UNCHANGED <<risk_arguments, pipeline_risk_score, current_risk_score, risk_history>>
    /\ UNCHANGED <<cascadeVars, matchVars, riskVars, alertVars, rankVars, eventsVars, workerVars>>

\* Step 4: analyze_risk(parsed_event, affected_suppliers, len(suppliers),
\* severity_level, cascading_suppliers) gives the score and the level, or raises.
Step4AnalyzeRisk ==
    /\ opc = "step4"
    /\ steps_started' = Append(steps_started, "risk")
    /\ risk_arguments' = risk_arguments_of(pipeline_affected, cascading_suppliers)
    /\ \E raised \in BOOLEAN, score \in PipelineRiskScores :
           IF ~raised
               THEN /\ pipeline_risk_score' = score
                    /\ pipeline_risk_level' = categorize_risk_level(score)
                    /\ agent_logs' = Append(agent_logs, LogEntry("Risk Analyzer", "completed"))
                    /\ opc' = AfterStep("step4")
                    /\ UNCHANGED <<processing_status, process_result>>
               ELSE /\ score = 0
                    /\ UNCHANGED <<pipeline_risk_score, pipeline_risk_level>>
                    /\ Failed(Append(agent_logs, LogEntry("Risk Analyzer", "failed")))
    /\ UNCHANGED <<pipeline_affected, llm_response, recommendation_result, playbook_result>>
    /\ UNCHANGED <<cascade_outcome, cascading_suppliers, current_risk_score, risk_history>>
    /\ UNCHANGED <<cascadeVars, matchVars, riskVars, alertVars, rankVars, eventsVars, workerVars>>

\* Step 5: generate_recommendations.  The query for alternative suppliers may
\* raise; the one call of the model is made after it.
Step5GenerateRecommendations ==
    /\ opc = "step5"
    /\ steps_started' = Append(steps_started, "recommend")
    /\ \/ /\ \E response \in LLMResponses :
                 /\ llm_response' = response
                 /\ recommendation_result' = generate_recommendations(response)
          /\ agent_logs' =
                 Append(agent_logs, LogEntry("Recommendation Generator", "completed"))
          /\ opc' = AfterStep("step5")
          /\ UNCHANGED <<processing_status, process_result>>
       \/ /\ llm_response' = [kind |-> "not_called", immediate_actions |-> <<>>]
          /\ UNCHANGED recommendation_result
          /\ Failed(Append(agent_logs, LogEntry("Recommendation Generator", "failed")))
    /\ UNCHANGED <<pipeline_affected, pipeline_risk_level, playbook_result>>
    /\ UNCHANGED <<cascade_outcome, cascading_suppliers, risk_arguments,
                   pipeline_risk_score, current_risk_score, risk_history>>
    /\ UNCHANGED <<cascadeVars, matchVars, riskVars, alertVars, rankVars, eventsVars, workerVars>>

\* Step 6: generate_playbook; an exception marks the step failed and is raised
\* again into the outer except clause.
Step6GeneratePlaybook ==
    /\ opc = "step6"
    /\ steps_started' = Append(steps_started, "playbook")
    /\ \E playbook \in {generate_playbook(pipeline_risk_level, recommendation_result)} :
           /\ playbook_result' = playbook
           /\ IF playbook.raised = ""
                  THEN /\ agent_logs' =
                              Append(agent_logs, LogEntry("Playbook Generator", "completed"))
                       /\ opc' = AfterStep("step6")
                       /\ UNCHANGED <<processing_status, process_result>>
                  ELSE Failed(Append(agent_logs, LogEntry("Playbook Generator", "failed")))
    /\ UNCHANGED <<pipeline_affected, pipeline_risk_level, llm_response,
                   recommendation_result>>
    /\ UNCHANGED <<cascade_outcome, cascading_suppliers, risk_arguments,
                   pipeline_risk_score, current_risk_score, risk_history>>
    /\ UNCHANGED <<cascadeVars, matchVars, riskVars, alertVars, rankVars, eventsVars, workerVars>>

\* Lines 207-222: the event is updated with all results and set to "completed".
CompleteProcessing ==
    /\ opc = "update"
    /\ processing_status' = "completed"
    /\ opc' = "organization"
    /\ UNCHANGED <<agent_logs, pipeline_affected, pipeline_risk_level, llm_response,
                   recommendation_result, playbook_result, process_result>>
    /\ UNCHANGED <<steps_started, cascade_outcome, cascading_suppliers, risk_arguments,
                   pipeline_risk_score, current_risk_score, risk_history>>
    /\ UNCHANGED <<cascadeVars, matchVars, riskVars, alertVars, rankVars, eventsVars, workerVars>>

\* Lines 224-263: the organization's current_risk_score and a risk-history
\* row are written, and process_event returns.  The organization may be
\* missing, and an exception (at the commit, or while the history row is
\* added) is only printed.
UpdateOrganization ==
    /\ opc = "organization"
    /\ \E outcome \in {"written", "no_organization", "commit_raised", "history_raised"} :
           /\ current_risk_score' =
                  IF outcome \in {"written", "history_raised"}
                      THEN pipeline_risk_score ELSE current_risk_score
           /\ risk_history' =
                  IF outcome = "written"
                      THEN Append(risk_history, [risk_score |-> pipeline_risk_score])
                      ELSE risk_history
    /\ process_result' = [success |-> TRUE]
    /\ opc' = "returned"
    /\ UNCHANGED <<processing_status, agent_logs, pipeline_affected, pipeline_risk_level,
                   llm_response, recommendation_result, playbook_result>>
    /\ UNCHANGED <<steps_started, cascade_outcome, cascading_suppliers, risk_arguments,
                   pipeline_risk_score>>
    /\ UNCHANGED <<cascadeVars, matchVars, riskVars, alertVars, rankVars, eventsVars, workerVars>>

PipelineNext ==
    \/ StartProcessing
    \/ Step1ParseEvent
    \/ Step2FindAffectedSuppliers
    \/ Step3AnalyzeCascading
    \/ Step4AnalyzeRisk
    \/ Step5GenerateRecommendations
    \/ Step6GeneratePlaybook
    \/ CompleteProcessing
    \/ UpdateOrganization

(***************************************************************************)
(* Actions of the cascade computation                                      *)
(***************************************************************************)
CascadeInit ==
    /\ pc = "start"
    /\ stored_dependencies = <<>>
    /\ dependency_graph = <<>>
    /\ affected_supplier_ids = {}
    /\ reverse_graph = <<>>
    /\ unordered = {}
    /\ queue = <<>>
    /\ visited = {}
    /\ downstream_affected = {}

\* build_dependency_graph, lines 11-17: the two queries.  The rows are those
\* whose supplier_id is a supplier of the organization (the join).
QueryDependencies ==
    /\ pc = "start"
    /\ stored_dependencies' \in SeqsUpTo(DependencyRows, MaxEdges)
    /\ pc' = "building"
    /\ UNCHANGED <<dependency_graph, affected_supplier_ids, reverse_graph, unordered,
                   queue, visited, downstream_affected>>
    /\ UNCHANGED <<matchVars, riskVars, alertVars, rankVars, pipelineVars, eventsVars, workerVars>>

\* build_dependency_graph, lines 19-24: the graph is built and returned; the
\* local list of rows is gone.
BuildGraph ==
    /\ pc = "building"
    /\ dependency_graph' = build_dependency_graph(OrgSuppliers, stored_dependencies)
    /\ stored_dependencies' = <<>>
    /\ pc' = "built"
    /\ UNCHANGED <<affected_supplier_ids, reverse_graph, unordered, queue,
                   visited, downstream_affected>>
    /\ UNCHANGED <<matchVars, riskVars, alertVars, rankVars, pipelineVars, eventsVars, workerVars>>

\* find_downstream_impact, lines 35-47: invert the graph, queue = list(affected),
\* visited = set(affected).  list(set) has no defined order: its elements are
\* kept in `unordered` and popped in any order before the appended ones.
StartSearch ==
    /\ pc = "built"
    /\ \E affected \in SUBSET AllIds :
           /\ affected_supplier_ids' = affected
           /\ unordered' = affected
           /\ visited' = affected
    /\ reverse_graph' = InvertGraph(dependency_graph)
    /\ queue' = <<>>
    /\ downstream_affected' = {}
    /\ pc' = "while"
    /\ UNCHANGED <<stored_dependencies, dependency_graph>>
    /\ UNCHANGED <<matchVars, riskVars, alertVars, rankVars, pipelineVars, eventsVars, workerVars>>

\* One iteration of `while queue:`: pop(0), then the for loop over dependents.
Iterate(current, restUnordered, restQueue) ==
    LET dependents == GetOrEmpty(reverse_graph, current)
        st == VisitDependents(dependents, 1,
                  [visited |-> visited,
                   downstream_affected |-> downstream_affected,
                   queue |-> restQueue])
    IN  /\ unordered' = restUnordered
        /\ queue' = st.queue
        /\ visited' = st.visited
        /\ downstream_affected' = st.downstream_affected

WhileIteration ==
    /\ pc = "while"
    /\ IF unordered # {}
          THEN \E current \in unordered : Iterate(current, unordered \ {current}, queue)
          ELSE /\ queue # <<>>
               /\ Iterate(Head(queue), {}, Tail(queue))
    /\ UNCHANGED <<pc, stored_dependencies, dependency_graph, affected_supplier_ids,
                   reverse_graph>>
    /\ UNCHANGED <<matchVars, riskVars, alertVars, rankVars, pipelineVars, eventsVars, workerVars>>

\* queue empty: return downstream_affected.
ReturnDownstream ==
    /\ pc = "while"
    /\ unordered = {}
    /\ queue = <<>>
    /\ pc' = "done"
    /\ UNCHANGED <<stored_dependencies, dependency_graph, affected_supplier_ids, reverse_graph,
                   unordered, queue, visited, downstream_affected>>
    /\ UNCHANGED <<matchVars, riskVars, alertVars, rankVars, pipelineVars, eventsVars, workerVars>>

(***************************************************************************)
(* Actions of find_affected_suppliers                                      *)
(***************************************************************************)
MatchInit ==
    /\ mpc = "idle"
    /\ parsed_event = None
    /\ scanned = 0
    /\ supplier = None
    /\ is_affected = FALSE
    /\ proximity_score = 0
    /\ reason = ""
    /\ affected_suppliers = <<>>
    /\ matcher_result = None

\* Lines 27-35: the call, with the parsed event of the incident.
CallFindAffectedSuppliers ==
    /\ mpc = "idle"
    /\ parsed_event' \in ParsedEvents
    /\ mpc' = "for"
    /\ UNCHANGED <<scanned, supplier, is_affected, proximity_score, reason,
                   affected_suppliers, matcher_result>>
    /\ UNCHANGED <<cascadeVars, riskVars, alertVars, rankVars, pipelineVars, eventsVars, workerVars>>

\* Lines 37-89: one iteration of the loop, for the next supplier of the list.
ForSupplier ==
    /\ mpc = "for"
    /\ scanned < MaxSuppliers
    /\ \E s \in SupplierRows(scanned + 1) :
           \E m \in {EvaluateSupplier(parsed_event, s)} :
               /\ supplier' = s
               /\ scanned' = scanned + 1
               /\ IF m.raised # ""
                     THEN /\ mpc' = "raised"
                          /\ matcher_result' = [raised |-> m.raised]
                          /\ UNCHANGED <<is_affected, proximity_score, reason,
                                         affected_suppliers>>
                     ELSE /\ is_affected' = m.is_affected
                          /\ proximity_score' = m.proximity_score
                          /\ reason' = m.reason
                          /\ affected_suppliers' =
                                 IF m.is_affected
                                    THEN Append(affected_suppliers, AffectedEntry(s, m))
                                    ELSE affected_suppliers
                          /\ UNCHANGED <<mpc, matcher_result>>
    /\ UNCHANGED parsed_event
    /\ UNCHANGED <<cascadeVars, riskVars, alertVars, rankVars, pipelineVars, eventsVars, workerVars>>

\* Lines 91-97: the list is exhausted.
ReturnAffectedSuppliers ==
    /\ mpc = "for"
    /\ mpc' = "returned"
    /\ matcher_result' = [success |-> TRUE,
                          affected_count |-> Len(affected_suppliers),
                          affected_suppliers |-> affected_suppliers]
    /\ UNCHANGED <<parsed_event, scanned, supplier, is_affected, proximity_score,
                   reason, affected_suppliers>>
    /\ UNCHANGED <<cascadeVars, riskVars, alertVars, rankVars, pipelineVars, eventsVars, workerVars>>

MatchNext ==
    \/ CallFindAffectedSuppliers
    \/ ForSupplier
    \/ ReturnAffectedSuppliers

(***************************************************************************)
(* Actions of the risk computations                                        *)
(***************************************************************************)
\* No risk computation is in progress.
RiskIdle ==
    /\ rpc = "idle"
    /\ affected_list = <<>>
    /\ total_suppliers = 0
    /\ severity_level = 1
    /\ risk_result = None
    /\ calc_result = None

\* The arguments of one risk computation.
RiskInputs ==
    /\ rpc = "ready"
    /\ affected_list \in SeqsUpTo(AffectedDicts, MaxAffected)
    /\ total_suppliers \in TotalSupplierCounts
    /\ severity_level \in SeverityLevels
    /\ risk_result = None
    /\ calc_result = None

\* RiskAnalyzerAgent.analyze_risk: it stores impact_score into the dicts of the
\* caller's list and sorts that list in place, then returns.
AnalyzeRisk ==
    /\ rpc = "ready"
    /\ \E r \in {analyze_risk(affected_list, total_suppliers, severity_level)} :
           /\ risk_result' = r
           /\ affected_list' = r.affected_suppliers
    /\ rpc' = "analyzed"
    /\ UNCHANGED <<total_suppliers, severity_level, calc_result>>
    /\ UNCHANGED <<cascadeVars, matchVars, alertVars, rankVars, pipelineVars, eventsVars, workerVars>>

\* The risk_calculator strategy: calculate_supplier_impact_score for every
\* affected supplier, calculate_overall_risk_score over the scored dicts and
\* calculate_financial_impact.
CalculateRisk ==
    /\ rpc = "ready"
    /\ calc_result' = CalculatorResult(affected_list, total_suppliers, severity_level)
    /\ rpc' = "calculated"
    /\ UNCHANGED <<affected_list, total_suppliers, severity_level, risk_result>>
    /\ UNCHANGED <<cascadeVars, matchVars, alertVars, rankVars, pipelineVars, eventsVars, workerVars>>

RiskNext ==
    \/ AnalyzeRisk
    \/ CalculateRisk

CascadeNext ==
    \/ QueryDependencies
    \/ BuildGraph
    \/ StartSearch
    \/ WhileIteration
    \/ ReturnDownstream

(***************************************************************************)
(* routers/events.py: the two endpoints that create events and schedule    *)
(* process_event as a background task.  Several requests are served at     *)
(* once; a request's background tasks run one after another once its       *)
(* response has been sent, and interleave with the other requests.         *)
(***************************************************************************)

\* events the model lets the endpoints create
MaxEvents == 4

\* requests served at the same time
MaxRequests == 2

EventIds == 1..MaxEvents

RequestIds == 1..MaxRequests

\* A request slot nobody uses.
IdleRequest ==
    [rpos |-> "idle", endpoint |-> "none", todo |-> 0, event_ids |-> <<>>,
     tasks |-> <<>>, running |-> 0]

\* crud.create_event: the primary key the database gives the new row.
create_event(rows) == rows + 1

\* BackgroundTasks.add_task, with a task that schedules the event twice.
add_taskTwice(tasks, event_id) == tasks \o <<event_id, event_id>>

\* BackgroundTasks.add_task(process_event_background, db, db_event.id, ...).
add_task(tasks, event_id) == Append(tasks, event_id)

\* events the requests in progress have still to create
RECURSIVE TodoUpTo(_)
TodoUpTo(r) == IF r = 0 THEN 0 ELSE requests[r].todo + TodoUpTo(r - 1)

PendingCreates == TodoUpTo(MaxRequests)

EventsInit ==
    /\ event_rows = 0
    /\ requests = [r \in RequestIds |-> IdleRequest]
    /\ run_count = [e \in EventIds |-> 0]
    /\ active_runs = [e \in EventIds |-> 0]

\* POST /api/events/ arrives (the organization exists).
ReceiveCreateEvent(r) ==
    /\ requests[r].rpos = "idle"
    /\ event_rows + PendingCreates + 1 <= MaxEvents
    /\ requests' = [requests EXCEPT ![r] =
                        [IdleRequest EXCEPT !.rpos = "creating",
                                            !.endpoint = "create", !.todo = 1]]
    /\ UNCHANGED <<event_rows, run_count, active_runs>>
    /\ UNCHANGED <<cascadeVars, matchVars, riskVars, alertVars, rankVars, pipelineVars, workerVars>>

\* POST /api/events/compare arrives with 2 or 3 scenarios.
ReceiveCompareEvents(r) ==
    /\ requests[r].rpos = "idle"
    /\ \E n \in 2..3 :
        /\ event_rows + PendingCreates + n <= MaxEvents
        /\ requests' = [requests EXCEPT ![r] =
                            [IdleRequest EXCEPT !.rpos = "creating",
                                                !.endpoint = "compare", !.todo = n]]
    /\ UNCHANGED <<event_rows, run_count, active_runs>>
    /\ UNCHANGED <<cascadeVars, matchVars, riskVars, alertVars, rankVars, pipelineVars, workerVars>>

\* One event of the request: create its row, schedule its background task
\* (the body of create_and_analyze_event, one iteration of the compare loop).
CreateEventAndAddTask(r) ==
    /\ requests[r].rpos = "creating"
    /\ requests[r].todo > 0
    /\ LET event_id == create_event(event_rows)
       IN /\ event_rows' = event_rows + 1
          /\ requests' = [requests EXCEPT
                            ![r].todo = @ - 1,
                            ![r].event_ids = Append(@, event_id),
                            ![r].tasks = add_task(@, event_id)]
    /\ UNCHANGED <<run_count, active_runs>>
    /\ UNCHANGED <<cascadeVars, matchVars, riskVars, alertVars, rankVars, pipelineVars, workerVars>>

\* The endpoint returns; its background tasks may start.
SendResponse(r) ==
    /\ requests[r].rpos = "creating"
    /\ requests[r].todo = 0
    /\ requests' = [requests EXCEPT ![r].rpos = "responded"]
    /\ UNCHANGED <<event_rows, run_count, active_runs>>
    /\ UNCHANGED <<cascadeVars, matchVars, riskVars, alertVars, rankVars, pipelineVars, workerVars>>

\* process_event_background starts for the request's next task.
StartProcessEvent(r) ==
    /\ requests[r].rpos = "responded"
    /\ requests[r].running = 0
    /\ requests[r].tasks # <<>>
    /\ LET event_id == Head(requests[r].tasks)
       IN /\ requests' = [requests EXCEPT ![r].tasks = Tail(@),
                                          ![r].running = event_id]
          /\ run_count' = [run_count EXCEPT ![event_id] = @ + 1]
          /\ active_runs' = [active_runs EXCEPT ![event_id] = @ + 1]
    /\ UNCHANGED event_rows
    /\ UNCHANGED <<cascadeVars, matchVars, riskVars, alertVars, rankVars, pipelineVars, workerVars>>

\* orchestrator.process_event returns.
FinishProcessEvent(r) ==
    /\ requests[r].rpos = "responded"
    /\ requests[r].running # 0
    /\ active_runs' = [active_runs EXCEPT ![requests[r].running] = @ - 1]
    /\ requests' = [requests EXCEPT ![r].running = 0]
    /\ UNCHANGED <<event_rows, run_count>>
    /\ UNCHANGED <<cascadeVars, matchVars, riskVars, alertVars, rankVars, pipelineVars, workerVars>>

\* All background tasks of the request have run.
RequestDone(r) ==
    /\ requests[r].rpos = "responded"
    /\ requests[r].running = 0
    /\ requests[r].tasks = <<>>
    /\ requests' = [requests EXCEPT ![r] = IdleRequest]
    /\ UNCHANGED <<event_rows, run_count, active_runs>>
    /\ UNCHANGED <<cascadeVars, matchVars, riskVars, alertVars, rankVars, pipelineVars, workerVars>>

EventsNext ==
    \E r \in RequestIds :
        \/ ReceiveCreateEvent(r)
        \/ ReceiveCompareEvents(r)
        \/ CreateEventAndAddTask(r)
        \/ SendResponse(r)
        \/ StartProcessEvent(r)
        \/ FinishProcessEvent(r)
        \/ RequestDone(r)

(***************************************************************************)
(* services/weather_worker.py: the global WeatherWorker, its polling loop  *)
(* and the functions that start and stop it; routers/weather.py and        *)
(* main.py call them.  Everything runs on one event loop, which runs while *)
(* the application is up: handlers and tasks that are ready run in the     *)
(* order in which they became ready, each without interruption up to its   *)
(* next await.                                                             *)
(***************************************************************************)

\* POST /worker/start requests the model serves
MaxStartRequests == 2

\* POST /worker/stop requests the model serves
MaxStopRequests == 2

\* What the event loop has to run: a request handler, a task created with
\* asyncio.create_task, or a polling loop whose sleep is over.
Ready(kind, loop) == [kind |-> kind, loop |-> loop]

\* start_weather_worker(): if not worker.running: asyncio.create_task(worker.start())
start_weather_worker(running, tasks) ==
    IF ~running THEN Append(tasks, Ready("worker.start", 0)) ELSE tasks

\* routers/weather.py start_worker: "already running" when worker.running,
\* and otherwise asyncio.create_task(start_weather_worker()).
start_worker(running, tasks) ==
    IF running THEN tasks ELSE Append(tasks, Ready("start_weather_worker", 0))

\* `while self.running`, evaluated by a loop whose sleep is over
after_sleep(running) == IF running THEN "polling" ELSE "exited"

\* the loops that have begun and not exited
ActiveLoops == {i \in DOMAIN loops : loops[i] \in {"polling", "sleeping", "waking"}}

WorkerInit ==
    /\ app_state = "down"
    /\ worker_running = FALSE
    /\ ready = <<>>
    /\ loops = <<>>
    /\ start_requests = 0
    /\ stop_requests = 0

\* main.py lifespan, startup: await start_weather_worker().
LifespanStartup ==
    /\ app_state = "down"
    /\ app_state' = "up"
    /\ ready' = start_weather_worker(worker_running, ready)
    /\ UNCHANGED <<worker_running, loops, start_requests, stop_requests>>
    /\ UNCHANGED <<cascadeVars, matchVars, riskVars, alertVars, rankVars, pipelineVars, eventsVars>>

\* A POST /worker/start request arrives: its handler is ready to run.
ReceiveStartRequest ==
    /\ app_state = "up"
    /\ start_requests < MaxStartRequests
    /\ start_requests' = start_requests + 1
    /\ ready' = Append(ready, Ready("start_worker", 0))
    /\ UNCHANGED <<app_state, worker_running, loops, stop_requests>>
    /\ UNCHANGED <<cascadeVars, matchVars, riskVars, alertVars, rankVars, pipelineVars, eventsVars>>

\* A POST /worker/stop request arrives: its handler is ready to run.
ReceiveStopRequest ==
    /\ app_state = "up"
    /\ stop_requests < MaxStopRequests
    /\ stop_requests' = stop_requests + 1
    /\ ready' = Append(ready, Ready("stop_worker", 0))
    /\ UNCHANGED <<app_state, worker_running, loops, start_requests>>
    /\ UNCHANGED <<cascadeVars, matchVars, riskVars, alertVars, rankVars, pipelineVars, eventsVars>>

\* The event loop runs the handler start_worker.
RunStartWorker ==
    /\ app_state = "up"
    /\ ready # <<>>
    /\ Head(ready).kind = "start_worker"
    /\ ready' = start_worker(worker_running, Tail(ready))
    /\ UNCHANGED <<app_state, worker_running, loops, start_requests, stop_requests>>
    /\ UNCHANGED <<cascadeVars, matchVars, riskVars, alertVars, rankVars, pipelineVars, eventsVars>>

\* The event loop runs a task of start_weather_worker().
RunStartWeatherWorker ==
    /\ app_state = "up"
    /\ ready # <<>>
    /\ Head(ready).kind = "start_weather_worker"
    /\ ready' = start_weather_worker(worker_running, Tail(ready))
    /\ UNCHANGED <<app_state, worker_running, loops, start_requests, stop_requests>>
    /\ UNCHANGED <<cascadeVars, matchVars, riskVars, alertVars, rankVars, pipelineVars, eventsVars>>

\* The event loop runs a task of worker.start(): self.running = True, the
\* while loop is entered and runs up to the first await of
\* _check_all_organizations.
RunWorkerStart ==
    /\ app_state = "up"
    /\ ready # <<>>
    /\ Head(ready).kind = "worker.start"
    /\ ready' = Tail(ready)
    /\ worker_running' = TRUE
    /\ loops' = Append(loops, "polling")
    /\ UNCHANGED <<app_state, start_requests, stop_requests>>
    /\ UNCHANGED <<cascadeVars, matchVars, riskVars, alertVars, rankVars, pipelineVars, eventsVars>>

\* The event loop runs the handler stop_worker: stop_weather_worker(),
\* worker.stop().
RunStopWorker ==
    /\ app_state = "up"
    /\ ready # <<>>
    /\ Head(ready).kind = "stop_worker"
    /\ ready' = Tail(ready)
    /\ worker_running' = FALSE
    /\ UNCHANGED <<app_state, loops, start_requests, stop_requests>>
    /\ UNCHANGED <<cascadeVars, matchVars, riskVars, alertVars, rankVars, pipelineVars, eventsVars>>

\* _check_all_organizations has returned or raised: await asyncio.sleep(...).
PollDone(i) ==
    /\ loops[i] = "polling"
    /\ loops' = [loops EXCEPT ![i] = "sleeping"]
    /\ UNCHANGED <<app_state, worker_running, ready, start_requests, stop_requests>>
    /\ UNCHANGED <<cascadeVars, matchVars, riskVars, alertVars, rankVars, pipelineVars, eventsVars>>

\* The sleep of a loop is over: the loop is ready to run.
SleepOver(i) ==
    /\ loops[i] = "sleeping"
    /\ loops' = [loops EXCEPT ![i] = "waking"]
    /\ ready' = Append(ready, Ready("loop", i))
    /\ UNCHANGED <<app_state, worker_running, start_requests, stop_requests>>
    /\ UNCHANGED <<cascadeVars, matchVars, riskVars, alertVars, rankVars, pipelineVars, eventsVars>>

\* The event loop resumes a loop after its sleep: it tests self.running and
\* polls again or leaves the while loop.
ResumeLoop ==
    /\ app_state = "up"
    /\ ready # <<>>
    /\ Head(ready).kind = "loop"
    /\ ready' = Tail(ready)
    /\ loops' = [loops EXCEPT ![Head(ready).loop] = after_sleep(worker_running)]
    /\ UNCHANGED <<app_state, worker_running, start_requests, stop_requests>>
    /\ UNCHANGED <<cascadeVars, matchVars, riskVars, alertVars, rankVars, pipelineVars, eventsVars>>

\* main.py lifespan, shutdown: stop_weather_worker().
LifespanShutdown ==
    /\ app_state = "up"
    /\ app_state' = "shut"
    /\ worker_running' = FALSE
    /\ UNCHANGED <<ready, loops, start_requests, stop_requests>>
    /\ UNCHANGED <<cascadeVars, matchVars, riskVars, alertVars, rankVars, pipelineVars, eventsVars>>

WorkerNext ==
    \/ LifespanStartup
    \/ ReceiveStartRequest
    \/ ReceiveStopRequest
    \/ RunStartWorker
    \/ RunStartWeatherWorker
    \/ RunWorkerStart
    \/ RunStopWorker
    \/ \E i \in DOMAIN loops : PollDone(i)
    \/ \E i \in DOMAIN loops : SleepOver(i)
    \/ ResumeLoop
    \/ LifespanShutdown

\* No call is in progress.
Init ==
    /\ CascadeInit /\ MatchInit /\ RiskIdle /\ AlertInit /\ RankInit /\ PipelineInit
    /\ EventsInit /\ WorkerInit

\* The risk computation has its arguments; the other calls are not in progress.
RiskInit ==
    /\ CascadeInit /\ MatchInit /\ RiskInputs /\ AlertInit /\ RankInit /\ PipelineInit
    /\ EventsInit /\ WorkerInit

SpecCascade == Init /\ [][CascadeNext]_vars

SpecMatch == Init /\ [][MatchNext]_vars

SpecRisk == RiskInit /\ [][RiskNext]_vars

SpecAlert == Init /\ [][AlertNext]_vars

SpecRank == Init /\ [][RankNext]_vars

SpecPipeline == Init /\ [][PipelineNext]_vars

SpecEvents == Init /\ [][EventsNext]_vars

SpecWorker == Init /\ [][WorkerNext]_vars

(***************************************************************************)
(* C1, C2: downstream-impact search                                        *)
(***************************************************************************)
\* Work left in the search: queued ids plus ids that can still be enqueued.
WorkLeft == Cardinality(unordered) + Len(queue) + Cardinality(AllIds \ visited)

\* C1: find_downstream_impact terminates on every graph (cycles, self-loops,
\* affected ids that are not keys): every iteration of the while loop strictly
\* decreases the work left, which is a natural number.
C1_SearchTerminates ==
    [][(pc = "while" /\ pc' = "while") => (WorkLeft' < WorkLeft)]_vars

\* Reached: a search over a graph with a cycle and a self-loop, started from an
\* id that is not a key, has returned.
C1_Witness ==
    /\ pc = "done"
    /\ 0 \in affected_supplier_ids
    /\ \E s \in DOMAIN dependency_graph : s \in Range(dependency_graph[s])
    /\ \E s, t \in DOMAIN dependency_graph :
           /\ s # t
           /\ t \in Range(dependency_graph[s])
           /\ s \in Range(dependency_graph[t])
    /\ downstream_affected # {}

\* s depends on t through one or more edges (paths of at most k edges).
RECURSIVE DependsOnWithin(_, _, _, _)
DependsOnWithin(graph, s, t, k) ==
    /\ k > 0
    /\ s \in DOMAIN graph
    /\ \/ t \in Range(graph[s])
       \/ \E m \in Range(graph[s]) : DependsOnWithin(graph, m, t, k - 1)

DependsOnTransitively(graph, s, t) ==
    DependsOnWithin(graph, s, t, Cardinality(DOMAIN graph) + 1)

\* C2: the result is exactly the suppliers outside the affected set that
\* depend, through one or more edges, on a member of the affected set; so it
\* is disjoint from the affected set and empty when that set is empty.
C2_ExactlyTransitiveDependents ==
    pc = "done" =>
        /\ downstream_affected =
               {s \in DOMAIN dependency_graph \ affected_supplier_ids :
                    \E a \in affected_supplier_ids :
                        DependsOnTransitively(dependency_graph, s, a)}
        /\ downstream_affected \cap affected_supplier_ids = {}
        /\ (affected_supplier_ids = {} => downstream_affected = {})

\* Reached: the 3-cycle 1 -> 2 -> 3 -> 1 with 1 affected returns {2, 3}.
C2_Witness ==
    /\ pc = "done"
    /\ dependency_graph = (1 :> <<2>> @@ 2 :> <<3>> @@ 3 :> <<1>>)
    /\ affected_supplier_ids = {1}
    /\ downstream_affected = {2, 3}

(***************************************************************************)
(* C3 - C7: supplier matching                                              *)
(***************************************************************************)
\* The last iteration of the loop ran to its end (it did not raise).
Evaluated == scanned > 0 /\ mpc # "raised"

\* The supplier of the last iteration is in the output.
Included ==
    /\ affected_suppliers # <<>>
    /\ affected_suppliers[Len(affected_suppliers)].supplier_id = supplier.id

ReportedProximity == affected_suppliers[Len(affected_suppliers)].proximity_score

\* The four signals, each on its own.
CountryMatches == Lower(supplier.country) = Lower(parsed_event.country)

CityMatches ==
    /\ parsed_event.city.kind = "str" /\ parsed_event.city.value # <<>>
    /\ supplier.city.kind = "str" /\ supplier.city.value # <<>>
    /\ Lower(supplier.city.value) = Lower(parsed_event.city.value)

BothHaveCoordinates ==
    /\ parsed_event.estimated_latitude.kind = "number"
    /\ parsed_event.estimated_longitude.kind = "number"
    /\ supplier.latitude.kind = "number"
    /\ supplier.longitude.kind = "number"

DistanceMetres ==
    HaversineMetres[<<parsed_event.estimated_latitude.value,
                      parsed_event.estimated_longitude.value,
                      supplier.latitude.value, supplier.longitude.value>>]

\* The radius in km: the event's, or the default when the event has none.
RadiusKm ==
    IF parsed_event.affected_radius_km.kind = "number"
        THEN parsed_event.affected_radius_km.value
        ELSE DefaultRadiusKm

WithinRadius == BothHaveCoordinates /\ DistanceMetres <= 1000 * RadiusKm

IndustryMatches ==
    \E i \in DOMAIN parsed_event.key_industries_affected :
        LET industry == Lower(parsed_event.key_industries_affected[i])
            category == Lower(supplier.category)
        IN  IsSubstring(industry, category) \/ IsSubstring(category, industry)

\* C3: a supplier is in the output exactly when at least one of the four
\* signals (country, city, distance within the radius, industry keyword) holds,
\* none of them needing another.
C3_AnySignalAlone ==
    Evaluated =>
        (Included <=> (CountryMatches \/ CityMatches \/ WithinRadius \/ IndustryMatches))

\* C4: with incident coordinates and a positive radius, a supplier at exactly
\* the incident's coordinates is in the output, whatever the coordinates are.
C4_EpicentreSupplierAffected ==
    (/\ Evaluated
     /\ BothHaveCoordinates
     /\ parsed_event.affected_radius_km.kind = "number"
     /\ parsed_event.affected_radius_km.value > 0
     /\ supplier.latitude = parsed_event.estimated_latitude
     /\ supplier.longitude = parsed_event.estimated_longitude)
        => Included

DistanceScore ==
    IF WithinRadius /\ RadiusKm > 0
        THEN Round2(1000000 - ((1000 * DistanceMetres) \div RadiusKm))
        ELSE 0

C7_OptionalFieldsNeverRaise ==
    (/\ mpc # "idle"
     /\ \/ parsed_event.affected_radius_km.kind \in {"absent", "null"}
        \/ parsed_event.estimated_latitude.kind = "null"
        \/ parsed_event.estimated_longitude.kind = "null")
        => mpc # "raised"

(***************************************************************************)
(* C8 - C10: risk scores                                                   *)
(***************************************************************************)
\* C8: for severity 1..5 and any criticality, tier and proximity in [0,1],
\* the per-supplier impact scores of both strategies and the overall risk
\* score lie in [0,100].
C8_ScoresWithinRange ==
    /\ rpc = "analyzed" =>
           /\ risk_result.raised = ""
           /\ \A i \in DOMAIN affected_list :
                  /\ affected_list[i].impact_score >= 0
                  /\ affected_list[i].impact_score <= 10000
           /\ risk_result.overall_risk_score >= 0
           /\ risk_result.overall_risk_score <= 10000
    /\ rpc = "calculated" =>
           /\ \A i \in DOMAIN calc_result.impact_scores :
                  /\ calc_result.impact_scores[i] >= 0
                  /\ calc_result.impact_scores[i] <= 10000
           /\ calc_result.overall_risk_score >= 0
           /\ calc_result.overall_risk_score <= 100 * 10000

\* Reached: severity 5, every supplier Critical, tier 1, proximity 1.0, more
\* affected suppliers than the total: the overall score is 100, not more.
C8_Witness ==
    /\ rpc = "analyzed"
    /\ severity_level = 5
    /\ Len(affected_list) >= 2
    /\ Len(affected_list) > total_suppliers
    /\ \A i \in DOMAIN affected_list :
           /\ affected_list[i].criticality = "Critical"
           /\ affected_list[i].tier = 1
           /\ affected_list[i].proximity_score = 100
           /\ affected_list[i].impact_score = 10000
    /\ risk_result.overall_risk_score = 10000

\* C9: with an empty affected-supplier list nothing raises; analyze_risk gives
\* overall_risk_score 0 and MINIMAL for any total (0 included),
\* calculate_overall_risk_score gives 0, and the financial estimates have zero
\* revenue at risk, zero loss and zero mitigation cost.
C9_EmptyListZeroRisk ==
    /\ (rpc = "analyzed" /\ affected_list = <<>>) =>
           /\ risk_result.raised = ""
           /\ risk_result.overall_risk_score = 0
           /\ risk_result.risk_level = "MINIMAL"
           /\ risk_result.financial_impact.daily_revenue_at_risk = 0
           /\ risk_result.financial_impact.total_estimated_loss = 0
           /\ risk_result.financial_impact.total_mitigation_cost = 0
    /\ (rpc = "calculated" /\ affected_list = <<>>) =>
           /\ calc_result.overall_risk_score = 0
           /\ calc_result.financial_impact.daily_revenue_at_risk = 0
           /\ calc_result.financial_impact.total_estimated_loss = 0
           /\ calc_result.financial_impact.total_mitigation_cost = 0

\* Reached: analyze_risk has returned for an empty list and a total of 0.
C9_Witness ==
    /\ rpc = "analyzed"
    /\ affected_list = <<>>
    /\ total_suppliers = 0
    /\ risk_result.raised = ""
    /\ risk_result.risk_level = "MINIMAL"

\* C10: with total_supplier_count 0 the overall risk score is 0 for every
\* affected-supplier list, in calculate_overall_risk_score and in analyze_risk.
C10_ZeroTotalZeroRisk ==
    /\ (rpc = "analyzed" /\ total_suppliers = 0) =>
           (risk_result.raised = "" /\ risk_result.overall_risk_score = 0)
    /\ (rpc = "calculated" /\ total_suppliers = 0) =>
           calc_result.overall_risk_score = 0

(***************************************************************************)
(* C11, C12: risk level and monotonicity in severity                       *)
(***************************************************************************)
\* The classification as the specification states it, on hundredths of a point.
ClassificationOf(score) ==
    CASE score >= 8000 -> "CRITICAL"
      [] score >= 6000 /\ score < 8000 -> "HIGH"
      [] score >= 4000 /\ score < 6000 -> "MEDIUM"
      [] score >= 2000 /\ score < 4000 -> "LOW"
      [] score < 2000 -> "MINIMAL"

\* Scores on and next to every threshold, and the ends of the range.
ThresholdScores ==
    {0, 1999, 2000, 2001, 3999, 4000, 4001, 5999, 6000, 6001, 7999, 8000, 8001, 10000}

\* C11: the risk level is the classification of the score with inclusive lower
\* bounds (>= 80 CRITICAL, >= 60 HIGH, >= 40 MEDIUM, >= 20 LOW, else MINIMAL),
\* and the level analyze_risk reports is the classification of the
\* overall_risk_score it reports.
C11_LevelClassifiesScore ==
    rpc = "analyzed" =>
        /\ risk_result.raised = ""
        /\ risk_result.risk_level = ClassificationOf(risk_result.overall_risk_score)
        /\ \A score \in ThresholdScores :
               categorize_risk_level(score) = ClassificationOf(score)

\* Reached: analyze_risk reports exactly 80.00 and CRITICAL.
C11_Witness ==
    /\ rpc = "analyzed"
    /\ risk_result.overall_risk_score = 8000
    /\ risk_result.risk_level = "CRITICAL"

\* C12: with the affected suppliers and the total fixed, every per-supplier
\* impact score and the overall risk score at a lower severity are at most
\* those at the severity of the call, and those at a higher severity are at
\* least those, in analyze_risk and in the risk_calculator functions.
C12_MonotoneInSeverity ==
    /\ rpc = "analyzed" =>
           \A other \in SeverityLevels :
               LET r == analyze_risk(affected_list, total_suppliers, other)
               IN  /\ r.raised = ""
                   /\ \A i \in DOMAIN affected_list :
                          IF other <= severity_level
                              THEN AnalyzerImpactScore(affected_list[i], other)
                                       <= affected_list[i].impact_score
                              ELSE AnalyzerImpactScore(affected_list[i], other)
                                       >= affected_list[i].impact_score
                   /\ IF other <= severity_level
                          THEN r.overall_risk_score <= risk_result.overall_risk_score
                          ELSE r.overall_risk_score >= risk_result.overall_risk_score
    /\ rpc = "calculated" =>
           \A other \in SeverityLevels :
               LET r == CalculatorResult(affected_list, total_suppliers, other)
               IN  /\ \A i \in DOMAIN affected_list :
                          IF other <= severity_level
                              THEN r.impact_scores[i] <= calc_result.impact_scores[i]
                              ELSE r.impact_scores[i] >= calc_result.impact_scores[i]
                   /\ IF other <= severity_level
                          THEN r.overall_risk_score <= calc_result.overall_risk_score
                          ELSE r.overall_risk_score >= calc_result.overall_risk_score

\* Reached: the calculator strategy at severity 3 scores strictly more than it
\* does at severity 1 for the same suppliers, and the score at severity 5 is
\* clamped to 100 for a supplier.
C12_Witness ==
    /\ rpc = "calculated"
    /\ severity_level = 3
    /\ Len(affected_list) = 2
    /\ total_suppliers = 3
    /\ calc_result.overall_risk_score >
           CalculatorResult(affected_list, total_suppliers, 1).overall_risk_score
    /\ \E i \in DOMAIN affected_list :
           CalculatorResult(affected_list, total_suppliers, 5).impact_scores[i] = 10000

(***************************************************************************)
(* C13, C14, C15: alert trigger and alert impact score                     *)
(***************************************************************************)
\* A criticality that denotes the level Critical: the value of
\* CriticalityLevel.CRITICAL, or the upper-case spelling of the name.
IsCriticalLevel(c) == c \in {"Critical", "CRITICAL"}

\* The affected suppliers of the event whose criticality is Critical.
CriticalSupplierCount(event) ==
    Cardinality({i \in DOMAIN event.affected_suppliers :
                     IsCriticalLevel(event.affected_suppliers[i].criticality)})

\* The trigger rule as stated: severity HIGH or CRITICAL, or a Critical
\* supplier among the affected ones, or at least three affected suppliers.
TriggerRule(event) ==
    \/ event.severity \in {"HIGH", "CRITICAL"}
    \/ CriticalSupplierCount(event) >= 1
    \/ affected_count_of(event) >= 3

\* The alert impact score as stated.
StatedImpactScore(event) ==
    LET band == CASE event.severity = "CRITICAL" -> 40
                  [] event.severity = "HIGH" -> 30
                  [] event.severity = "MEDIUM" -> 20
                  [] event.severity = "LOW" -> 10
    IN  Min(band + Min(5 * affected_count_of(event), 30)
                 + Min(10 * CriticalSupplierCount(event), 30), 100)

\* C13: _should_trigger_alert returns true exactly when the severity is HIGH
\* or CRITICAL, or an affected supplier has criticality Critical, or
\* affected_count >= 3, and false when none of the three holds.
C13_TriggerExactlyWhenRuleHolds ==
    apc \in {"alerted", "filtered", "called"} => (triggered <=> TriggerRule(feed_event))

\* C14: in a scan, a matched event that affects a supplier whose stored
\* criticality is Critical produces an alert, whatever its severity and the
\* number of matched suppliers, and the alert's impact score counts every such
\* supplier in its critical-supplier term.
C14_CriticalSupplierAlerts ==
    (/\ apc \in {"alerted", "filtered"}
     /\ \E i \in DOMAIN feed_event.affected_suppliers :
            feed_event.affected_suppliers[i].criticality = "Critical")
        => /\ apc = "alerted"
           /\ alert.impact_score = StatedImpactScore(feed_event)

\* C15: the alert impact score is the severity band (40, 30, 20, 10) plus
\* min(5 x affected_count, 30) plus min(10 x critical supplier count, 30),
\* capped at 100, and lies in [10, 100].
C15_ImpactScoreFormula ==
    apc \in {"alerted", "called"} =>
        /\ alert.impact_score = StatedImpactScore(feed_event)
        /\ alert.impact_score >= 10
        /\ alert.impact_score <= 100

(***************************************************************************)
(* C16, C17: ranking of alternative suppliers                              *)
(***************************************************************************)
\* The total score of a candidate of the call.
CandidateScore(i) ==
    score_alternative_supplier(alternatives[i], affected_supplier,
                               event_location_of(rec_event_location)).total_score

ReturnedIds == {ranked_alternatives[j].supplier_id : j \in DOMAIN ranked_alternatives}

\* C16: rank_alternative_suppliers returns min(top_n, number of candidates)
\* entries, in non-increasing total_score order, each a candidate of the call,
\* and no candidate left out scores strictly higher than a returned one; an
\* empty candidate list gives an empty result.
C16_TopNSortedDescending ==
    kpc = "ranked" =>
        /\ Len(ranked_alternatives) = Min(top_n, Len(alternatives))
        /\ \A j \in 1..(Len(ranked_alternatives) - 1) :
               ranked_alternatives[j].total_score >= ranked_alternatives[j + 1].total_score
        /\ \A j \in DOMAIN ranked_alternatives :
               \E i \in DOMAIN alternatives :
                   /\ alternatives[i].id = ranked_alternatives[j].supplier_id
                   /\ CandidateScore(i) = ranked_alternatives[j].total_score
        /\ Cardinality(ReturnedIds) = Len(ranked_alternatives)
        /\ \A i \in DOMAIN alternatives :
               alternatives[i].id \notin ReturnedIds =>
                   \A j \in DOMAIN ranked_alternatives :
                       CandidateScore(i) <= ranked_alternatives[j].total_score
        /\ (alternatives = <<>> => ranked_alternatives = <<>>)

\* Reached: three candidates whose last scores strictly more than the first,
\* top_n = 2: the last candidate is returned first and one candidate is left out.
C16_Witness ==
    /\ kpc = "ranked"
    /\ Len(alternatives) = 3
    /\ top_n = 2
    /\ CandidateScore(3) > CandidateScore(1)
    /\ Len(ranked_alternatives) = 2
    /\ ranked_alternatives[1].supplier_id = alternatives[3].id

\* C17: the alternatives recommended for an affected supplier contain neither
\* that supplier nor any other affected supplier of the incident, and each of
\* them is a supplier of the same organization and of the same category as
\* the affected supplier.
C17_AlternativesExcludeAffected ==
    kpc = "found" =>
        \A e \in DOMAIN alternative_suppliers :
            LET entry == alternative_suppliers[e]
            IN  \A j \in DOMAIN entry.alternatives :
                    LET alt_id == entry.alternatives[j].supplier_id
                    IN  /\ alt_id # entry.affected_supplier_id
                        /\ \A a \in DOMAIN rec_affected_suppliers :
                               rec_affected_suppliers[a].supplier_id # alt_id
                        /\ alt_id \in DOMAIN all_suppliers
                        /\ all_suppliers[alt_id].organization_id = OrganizationId
                        /\ all_suppliers[alt_id].category =
                               all_suppliers[entry.affected_supplier_id].category

\* Reached: three suppliers of one category, one of them affected and one of
\* them in another organization: exactly one supplier is recommended.
C17_Witness ==
    /\ kpc = "found"
    /\ Len(rec_affected_suppliers) = 1
    /\ Len(all_suppliers) = 3
    /\ \A i \in DOMAIN all_suppliers : all_suppliers[i].category = "Components"
    /\ \E i \in DOMAIN all_suppliers : all_suppliers[i].organization_id # OrganizationId
    /\ Len(alternative_suppliers) = 1
    /\ Len(alternative_suppliers[1].alternatives) = 1

(***************************************************************************)
(* C18: build_dependency_graph                                             *)
(***************************************************************************)
\* How many times d occurs in a list.
Occurrences(list, d) == Cardinality({i \in DOMAIN list : list[i] = d})

\* How many rows say that s depends on d.
StoredEdges(rows, s, d) ==
    Cardinality({i \in DOMAIN rows :
                    rows[i].supplier_id = s /\ rows[i].depends_on_supplier_id = d})

\* C18: the graph build_dependency_graph returns has exactly the suppliers of
\* the organization as keys; a supplier without rows maps to the empty list;
\* every stored edge (s depends on d) appears as d in the list of s once per
\* stored row, also when d is a supplier outside the organization, and the
\* lists hold nothing else.
C18_GraphOfStoredEdges ==
    [][(pc = "building" /\ pc' = "built") =>
           /\ DOMAIN dependency_graph' = OrgSuppliers
           /\ \A s \in OrgSuppliers :
                  /\ (\A i \in DOMAIN stored_dependencies :
                          stored_dependencies[i].supplier_id # s)
                         => dependency_graph'[s] = <<>>
                  /\ \A d \in AllIds :
                         Occurrences(dependency_graph'[s], d)
                             = StoredEdges(stored_dependencies, s, d)
                  /\ Len(dependency_graph'[s]) =
                         Cardinality({i \in DOMAIN stored_dependencies :
                                         stored_dependencies[i].supplier_id = s})]_vars

\* Reached: the graph returned for rows with an edge stored twice and an edge
\* to a supplier outside the organization; a supplier without rows is a key.
C18_Witness ==
    /\ pc = "built"
    /\ DOMAIN dependency_graph = OrgSuppliers
    /\ dependency_graph[1] = <<2, 2>>
    /\ dependency_graph[2] = <<0>>
    /\ dependency_graph[3] = <<>>

(***************************************************************************)
(* C19: a failed call of the model in step 5                               *)
(***************************************************************************)
\* Step 5 has called the model.
Step5Ran == \E i \in DOMAIN agent_logs : agent_logs[i].agent = "Recommendation Generator"

\* C19: when the call that produces the strategic recommendations fails, the
\* recommendations hold canned suggestions in its place, the playbook step
\* does not end failed, and the event ends with status completed, never failed.
C19_LLMFailureStillCompletes ==
    (Step5Ran /\ llm_response.kind \in {"exception", "invalid_json"}) =>
        /\ recommendation_result.strategic_recommendations.kind = "dict"
        /\ \A i \in DOMAIN agent_logs : agent_logs[i].status # "failed"
        /\ processing_status # "failed"
        /\ (opc = "returned" => processing_status = "completed")

(***************************************************************************)
(* C20: the computations and their inputs                                  *)
(***************************************************************************)
\* C20: no core computation modifies its inputs.  While analyze_risk or the
\* risk_calculator functions run, the caller's affected-supplier list keeps
\* its entries and their order; while find_affected_suppliers runs, the
\* parsed incident is unchanged; while find_downstream_impact runs, the
\* affected-ID set and the dependency graph are unchanged.
C20_InputsNotModified ==
    [][/\ (rpc = "ready" => affected_list' = affected_list)
       /\ (mpc = "for" => parsed_event' = parsed_event)
       /\ (pc = "while" =>
               /\ affected_supplier_ids' = affected_supplier_ids
               /\ dependency_graph' = dependency_graph)]_vars

(***************************************************************************)
(* C21: scheduling of process_event by the events router                   *)
(***************************************************************************)

\* how many times the event id is in a task list
TimesInTasks(tasks, event_id) ==
    Cardinality({i \in 1..Len(tasks) : tasks[i] = event_id})

\* process_event runs scheduled for the event so far: waiting ones and started ones
RECURSIVE WaitingRuns(_, _)
WaitingRuns(r, event_id) ==
    IF r = 0 THEN 0
    ELSE TimesInTasks(requests[r].tasks, event_id) + WaitingRuns(r - 1, event_id)

ScheduledRuns(event_id) == WaitingRuns(MaxRequests, event_id) + run_count[event_id]

\* C21: for every event id at most one process_event run is ever scheduled,
\* so no two runs for the same event are in progress at once, whatever the
\* interleaving of create-event and compare-events requests.
C21_OneRunPerEvent ==
    \A event_id \in EventIds :
        /\ ScheduledRuns(event_id) <= 1
        /\ active_runs[event_id] <= 1

\* A create request and a compare request are both running their background
\* task, for different events.
C21_Witness ==
    \E r, q \in RequestIds :
        /\ requests[r].endpoint = "create"
        /\ requests[q].endpoint = "compare"
        /\ requests[r].running # 0
        /\ requests[q].running # 0
        /\ active_runs[requests[r].running] = 1
        /\ active_runs[requests[q].running] = 1

(***************************************************************************)
(* C22: the per-supplier impact score on the orchestration path            *)
(***************************************************************************)

\* min(100, (severity/5) x 50 + criticality_weight x 30 + tier_weight x 15
\*          + proximity x 10), in hundredths of a point
StatedAnalyzerScore(sup, severity) ==
    Min(10000, (severity * 50 * 100) \div 5
                   + CRITICALITY_WEIGHTS[sup.criticality] * 30
                   + TIER_MULTIPLIERS[sup.tier] * 15
                   + sup.proximity_score * 10)

\* C22: the impact score analyze_risk stores into every supplier equals
\* min(100, (severity/5) x 50 + criticality_weight x 30 + tier_weight x 15
\* + proximity x 10) with the weights of risk_calculator: it differs from
\* calculate_supplier_impact_score only in the proximity multiplier.
C22_AnalyzerScoreIsWeightedFormula ==
    rpc = "analyzed" =>
        \A i \in DOMAIN affected_list :
            affected_list[i].impact_score
                = StatedAnalyzerScore(affected_list[i], severity_level)

(***************************************************************************)
(* C23: the two financial-impact variants                                  *)
(***************************************************************************)

\* the stated relations between the fields of a financial impact for n suppliers
StatedFinancialImpact(fin, n) ==
    /\ fin.daily_revenue_at_risk = 10000 * n
    /\ fin.total_estimated_loss = fin.daily_revenue_at_risk * fin.estimated_resolution_days
    /\ fin.expedited_shipping_cost = 5000 * n
    /\ fin.alternative_sourcing_cost = 10000 * n
    /\ fin.total_mitigation_cost = 15000 * n
    /\ fin.total_mitigation_cost = fin.expedited_shipping_cost + fin.alternative_sourcing_cost
    /\ fin.net_impact = fin.total_estimated_loss - fin.total_mitigation_cost

\* C23: for an affected-supplier list of size n, analyze_risk and
\* calculate_financial_impact (default order value) both return
\* daily_revenue_at_risk = 10,000 n, total_estimated_loss = daily revenue x
\* estimated_resolution_days, total mitigation cost = 15,000 n = 5,000 n
\* + 10,000 n, and net_impact = total_estimated_loss - total mitigation cost.
C23_FinancialImpactRelations ==
    /\ (rpc = "analyzed" /\ risk_result.raised = "") =>
           StatedFinancialImpact(risk_result.financial_impact, Len(affected_list))
    /\ rpc = "calculated" =>
           StatedFinancialImpact(calc_result.financial_impact, Len(affected_list))

\* analyze_risk returned for a Critical and a High supplier: 13 days and a net
\* impact of 230,000, where calculate_financial_impact gives 10 days and 170,000.
C23_Witness ==
    /\ rpc = "analyzed"
    /\ risk_result.raised = ""
    /\ Len(affected_list) = 2
    /\ risk_result.financial_impact.estimated_resolution_days = 13
    /\ risk_result.financial_impact.net_impact = 230000
    /\ calculate_financial_impact(affected_list).net_impact = 170000

(***************************************************************************)
(* C29: estimated_resolution_days of the two financial-impact variants     *)
(***************************************************************************)

\* C29: for the same affected-supplier list analyze_risk and
\* calculate_financial_impact return the same estimated_resolution_days,
\* 7 + 3 x the number of suppliers whose criticality is Critical; High,
\* Medium and Low suppliers add nothing.
C29_SameResolutionDays ==
    (rpc = "analyzed" /\ risk_result.raised = "") =>
        /\ risk_result.financial_impact.estimated_resolution_days
               = calculate_financial_impact(affected_list).estimated_resolution_days
        /\ risk_result.financial_impact.estimated_resolution_days
               = 7 + 3 * CountWhere(affected_list, {"Critical"}, 1)

(***************************************************************************)
(* C24: which suppliers the live-feed path matches to an event             *)
(***************************************************************************)

\* the stated impact radius of an event type, in km
StatedRadiusKm(event_type) ==
    IF event_type = "NATURAL_DISASTER" THEN 500
    ELSE IF event_type = "WEATHER_EVENT" THEN 300
    ELSE IF event_type = "LABOR_DISPUTE" THEN 50
    ELSE IF event_type = "INDUSTRIAL_ACCIDENT" THEN 100
    ELSE IF event_type = "LOGISTICS_DISRUPTION" THEN 200
    ELSE 100

\* the match loop has run over the suppliers for an event that has a location
EventWasMatched == apc \in {"matched", "skipped"} /\ feed_event.location.kind = "dict"

\* the supplier of the query result is in the event's affected_suppliers
IsMatched(i) ==
    \E j \in DOMAIN feed_event.affected_suppliers :
        feed_event.affected_suppliers[j].supplier_id = feed_suppliers[i].id

\* the supplier lies within the stated radius of the event's location
WithinStatedRadius(i) ==
    feed_calculate_distance(feed_suppliers[i].latitude, feed_suppliers[i].longitude,
                            feed_event.location.lat, feed_event.location.lon)
        <= StatedRadiusKm(feed_event.event_type) * 1000

\* C24: on the live-feed path a supplier is matched to an event if
\* and only if its distance to the event location is at most the impact
\* radius of the event's type; no other signal makes a supplier affected.
C24_MatchedIffWithinRadius ==
    EventWasMatched =>
        \A i \in DOMAIN feed_suppliers : IsMatched(i) <=> WithinStatedRadius(i)

(***************************************************************************)
(* C25: the order of the steps of process_event                            *)
(***************************************************************************)

StepOrder == <<"parse", "match", "cascade", "risk", "recommend", "playbook">>

\* the agents that log their step, at their position in the order of the steps
StepOfAgent ==
    [a \in {"Event Parser", "Supplier Matcher", "Risk Analyzer",
            "Recommendation Generator", "Playbook Generator"} |->
        CASE a = "Event Parser" -> 1
          [] a = "Supplier Matcher" -> 2
          [] a = "Risk Analyzer" -> 4
          [] a = "Recommendation Generator" -> 5
          [] a = "Playbook Generator" -> 6]

\* the step of the agent is logged with the status
StepLogged(agent, status) ==
    \E i \in DOMAIN agent_logs :
        agent_logs[i].agent = agent /\ agent_logs[i].status = status

\* step k of the order has finished without raising
StepSucceeded(k) ==
    IF k = 3 THEN cascade_outcome # "none"
    ELSE \E a \in DOMAIN StepOfAgent : StepOfAgent[a] = k /\ StepLogged(a, "completed")

\* C25: the steps of process_event start in the order parse, match,
\* cascading search, risk analysis, recommendations, playbook; a step starts
\* only after the one before it has finished; the risk step receives exactly
\* the matcher's affected list and the cascading list; and a failure of the
\* parse, match, risk, recommendation or playbook step prevents every later
\* step from running.
C25_StepsInOrder ==
    /\ Len(steps_started) <= Len(StepOrder)
    /\ \A k \in DOMAIN steps_started :
           /\ steps_started[k] = StepOrder[k]
           /\ k > 1 => StepSucceeded(k - 1)
    /\ risk_arguments.called =>
           /\ Len(steps_started) >= 4
           /\ risk_arguments.affected = pipeline_affected
           /\ risk_arguments.cascading = cascading_suppliers
    /\ \A a \in DOMAIN StepOfAgent :
           StepLogged(a, "failed") =>
               /\ Len(steps_started) = StepOfAgent[a]
               /\ opc = "returned"

\* The risk step was handed two affected suppliers and two cascading ones and
\* raised: the recommendation and playbook steps have not run.
C25_Witness ==
    /\ steps_started = <<"parse", "match", "cascade", "risk">>
    /\ risk_arguments = risk_arguments_of(2, <<3, 4>>)
    /\ StepLogged("Risk Analyzer", "failed")
    /\ opc = "returned"
    /\ processing_status = "failed"

(***************************************************************************)
(* C26: the processing status and the organization's risk data             *)
(***************************************************************************)

\* the five steps that can fail the event have all ended completed
AllStepsSucceeded ==
    \A a \in DOMAIN StepOfAgent : StepLogged(a, "completed") /\ ~StepLogged(a, "failed")

\* C26, the states: a run that has started has left "pending"; a run that has
\* returned has left the event at completed or failed; completed is set only
\* if the parse, match, risk, recommendation and playbook steps all succeeded;
\* a failed run has written neither the organization's current_risk_score nor
\* its risk history.
C26_StatusOfTheRun ==
    /\ opc = "idle" <=> processing_status = "pending"
    /\ opc = "returned" => processing_status \in {"completed", "failed"}
    /\ processing_status = "completed" => AllStepsSucceeded
    /\ processing_status = "failed" => (current_risk_score = 0 /\ risk_history = <<>>)

\* C26, the steps: the first step of a run sets the status to processing, and
\* the organization's current_risk_score and risk history are written only
\* when the event has already been set to completed.
C26_StatusBeforeOrganization ==
    [][/\ opc = "idle" => processing_status' = "processing"
       /\ (current_risk_score' # current_risk_score \/ risk_history' # risk_history) =>
              (processing_status = "completed" /\ processing_status' = "completed")]_vars

\* C26: every run first sets the processing status to processing and has left
\* it at completed or failed when it returns; completed needs all five steps
\* to have succeeded; the organization's current_risk_score and risk history
\* are written only after the event was set to completed and are untouched by
\* a failed run.
C26_StatusAndOrganization == []C26_StatusOfTheRun /\ C26_StatusBeforeOrganization

\* A completed run has written the score and a risk-history row.
C26_Witness ==
    /\ opc = "returned"
    /\ processing_status = "completed"
    /\ AllStepsSucceeded
    /\ current_risk_score = 7000
    /\ risk_history = <<[risk_score |-> 7000]>>

(***************************************************************************)
(* C27: a failure inside the cascading step                                *)
(***************************************************************************)

\* C27: an exception inside step 3 never fails the event: processing goes on
\* to the risk step with an empty cascading list, and the affected list handed
\* to the risk step is the matcher's, as when step 3 succeeds.
C27_CascadeFailureIsSwallowed ==
    cascade_outcome = "raised" =>
        /\ cascading_suppliers = <<>>
        /\ Len(steps_started) = 3 => (opc = "step4" /\ processing_status = "processing")
        /\ Len(steps_started) > 3 => risk_arguments.called
        /\ risk_arguments.called =>
               risk_arguments = risk_arguments_of(pipeline_affected, <<>>)

\* Step 3 raised and the event ended completed, the risk step having been
\* given the two affected suppliers and no cascading one.
C27_Witness ==
    /\ cascade_outcome = "raised"
    /\ processing_status = "completed"
    /\ risk_arguments = risk_arguments_of(2, <<>>)
    /\ pipeline_affected = 2

(***************************************************************************)
(* C28: downstream search as a closure                                     *)
(***************************************************************************)

\* C28: with D the result of the search from the affected set A, the search
\* from A \cup D finds nothing more, every member of D is a key of the graph,
\* and for every B that contains A, A \cup D is a subset of B with what the
\* search from B finds.
C28_SearchIsClosure ==
    pc = "done" =>
        LET A == affected_supplier_ids
            D == downstream_affected
        IN  /\ D = find_downstream_impact(A, dependency_graph)
            /\ find_downstream_impact(A \cup D, dependency_graph) = {}
            /\ D \subseteq DOMAIN dependency_graph
            /\ \A B \in SUBSET AllIds :
                   A \subseteq B =>
                       (A \cup D) \subseteq
                           (B \cup find_downstream_impact(B, dependency_graph))

\* Reached: in the chain 3 -> 2 -> 1 with an edge to the outside id 0, the
\* search from {0} returns {1, 2, 3}, which the search from the larger set
\* {0, 2} covers with {1, 3}.
C28_Witness ==
    /\ pc = "done"
    /\ dependency_graph = (1 :> <<0>> @@ 2 :> <<1>> @@ 3 :> <<2>>)
    /\ affected_supplier_ids = {0}
    /\ downstream_affected = {1, 2, 3}
    /\ find_downstream_impact({0, 2}, dependency_graph) = {1, 3}

(***************************************************************************)
(* C30: the weather polling loops                                          *)
(***************************************************************************)

\* C30: at most one weather polling loop is ever active, under any
\* interleaving of application startup, worker-start requests and worker-stop
\* requests: no two WeatherWorker.start loops poll concurrently.
C30_AtMostOneLoop == Cardinality(ActiveLoops) <= 1

====
